---- MODULE Spec2Model ----
(***************************************************************************)
(* Model of the transient (in-memory) lease store of coredhcp:             *)
(*   plugins/leasestorage/transient/leases.go  (LeaseStore)                *)
(*   plugins/leasestorage/token.go             (Token)                     *)
(* Goroutines calling Lookup/Update/Dump/Expire, the deferred cleanup      *)
(* goroutine and the expireAction goroutines are interleaved: a step is    *)
(* what a goroutine does under one lock (keyLock, or the Mutex of a        *)
(* record), or one unsynchronised access to shared memory.                 *)
(***************************************************************************)
EXTENDS Integers, Sequences, FiniteSets, Bags, TLC

(* ------------------------------ bounds --------------------------------- *)

\* number of tokens the store mints in one run (bounds the number of Lookups)
MaxTokens == 3
\* number of Lookups in the runs that also interleave Expire and cleanup
StoreLookups == 2
\* time.Now() returns a minute in 1..MaxNow
MaxNow == 2
\* workAmount arguments passed to Expire range over 1..MaxWork
MaxWork == 2
\* the revision counter is kept modulo RevModulus (uint64 in the source)
RevModulus == 16

(* ------------------------- program constants --------------------------- *)

\* const expireGrace = time.Minute (time is counted in minutes)
expireGrace == 1

(* ------------------------------ universe ------------------------------- *)

Clients == {"c1", "c2"}
Expirers == {"e1"}
Dumpers == {"d1"}
Cids == {"A", "B"}

NoHolder == "none"
cleanupOf(e) == IF e = "e1" THEN "k1" ELSE "k2"

\* *storage pointers: 0 is nil. At most one record per ClientID is in the map, and
\* each client goroutine can still point to one record that was deleted from it
NoRec == 0
RecIds == 1 .. (Cardinality(Cids) + Cardinality(Clients))
\* *Token pointers: 0 is nil
NilTok == 0
TokIds == 1 .. MaxTokens

\* Token.owner: the issuing store, another store, or nil
Self == "self"
NoOwner == "nil"

\* Lease.ExpireAction: nil or a callback
NoAction == "nil"

\* errors returned by Update: the message, and whether the error is a *TokenError
\* (errors.Is(e, ErrToken)); OK is the nil error
OK == [msg |-> "nil", tokenErr |-> FALSE]
NewInvalidTokenError(msg) == [msg |-> msg, tokenErr |-> TRUE]
ErrToken == NewInvalidTokenError("Token invalidated")
ErrAlreadyInvalid == NewInvalidTokenError("The given token was invalid for this plugin")
ErrConcurrentUpdate == NewInvalidTokenError("The underlying leases have changed")
ErrOtherPlugin == [msg |-> "The token is for another plugin", tokenErr |-> FALSE]
ErrCorrupted == [msg |-> "Corrupted token", tokenErr |-> FALSE]
ErrCidMismatch == [msg |-> "The token was used for a different client", tokenErr |-> FALSE]

\* the leases callers commit: Elements identifies the []net.IPNet, Expire is the
\* deadline in minutes (0 is before the cutoff of every sweep that starts at minute
\* 2 or later, MaxNow + 7 is after every clock value)
Lease(elements, expire, action) ==
  [Elements |-> elements, Expire |-> expire, ExpireAction |-> action]
La == Lease(1, 0, "fa")
Lb == Lease(2, 0, "fb")
Lc == Lease(3, MaxNow + 7, "fc")
Ld == Lease(4, 0, NoAction)
Le == Lease(5, 0, NoAction)
Lv == Lease(7, MaxNow + 7, NoAction)
NilLease == Lease(0, 0, NoAction)

\* a []Lease variable: nil, or a slice holding the leases s
NilSlice == [isNil |-> TRUE, s |-> <<>>]
Slice(s) == [isNil |-> FALSE, s |-> s]

VARIABLES
  records,     \* LeaseStore.records: ClientID -> *storage (NoRec: no entry)
  heap,        \* the storage objects: revision, leases, and who holds the Mutex
  currentRev,  \* LeaseStore.currentRev
  keyR,        \* goroutines holding LeaseStore.keyLock for reading
  keyW,        \* goroutine holding LeaseStore.keyLock for writing
  tokens,      \* the Token objects minted so far
  ntok,        \* number of tokens minted so far
  cl,          \* per client goroutine: position and locals of Lookup / Update
  ex,          \* per Expire caller: position and locals of Expire
  tasks,       \* per Expire call: the goroutines spawned for expireActions
  kl,          \* per Expire caller: the cleanup goroutine it spawned
  dm,          \* per Dump caller: position and locals of Dump
  panicked,    \* a goroutine panicked (the process is gone)
  ev,          \* what the step just taken returned to a caller, if it returned
  tokHist,     \* history per token: commits made with it, first use, staleness
  cbHist,      \* history: callbacks owed to reaped leases, and callbacks invoked
  revLog,      \* history: per ClientID the non-zero revisions written, in order
  hist,        \* history: per client the calls that returned
  mem,         \* per client: the []Lease it holds, and the record sharing its memory
  swept        \* history: per ClientID what followed the sweep that emptied its record

vars == <<records, heap, currentRev, keyR, keyW, tokens, ntok, cl, ex, tasks, kl, dm,
          panicked, ev, tokHist, cbHist, revLog, hist, mem, swept>>

storeVars == <<records, heap, currentRev>>
lockVars == <<keyR, keyW>>
tokVars == <<tokens, ntok>>
expVars == <<ex, tasks, kl>>

(* ------------------------------ helpers -------------------------------- *)

\* storage zero value
ZeroStorage == [revision |-> 0, leases |-> <<>>, lock |-> NoHolder]

\* func (s *storage) reset()
reset(s) == [s EXCEPT !.leases = <<>>, !.revision = 0]

\* getRevision without the atomic add: the counter is read, never advanced
getRevisionNoAdd(cur) == cur

\* func (lstore *LeaseStore) getRevision(): the value returned, given the counter
RECURSIVE getRevision(_)
getRevision(cur) ==
  LET val == (cur + 1) % RevModulus
  IN IF val = 0 THEN getRevision(val) ELSE val

\* func duplicateLease(l *Lease) Lease
duplicateLease(l) ==
  [Elements |-> l.Elements, Expire |-> l.Expire, ExpireAction |-> l.ExpireAction]

\* the copy loops of Lookup and Dump
duplicateAll(ls) == [i \in 1 .. Len(ls) |-> duplicateLease(ls[i])]

\* func (t *Token) Valid() bool
Valid(t) == t # NilTok /\ tokens[t].owner # NoOwner

\* func (t *Token) IsOwnedBy(plugin LeaseStore) bool
IsOwnedBy(t, plugin) == t # NilTok /\ plugin # NoOwner /\ tokens[t].owner = plugin

\* func NewToken(owner LeaseStore, value interface{}) Token
NewToken(owner, value) ==
  IF owner = NoOwner
  THEN [owner |-> NoOwner, Value |-> [cid |-> "nil", revision |-> 0]]
  ELSE [owner |-> owner, Value |-> value]

\* func (t *Token) Invalidate(): the tokens after the call
Invalidate(toks, t) ==
  IF t = NilTok \/ toks[t].owner = NoOwner THEN toks
  ELSE [toks EXCEPT ![t].owner = NoOwner]

\* func (t *Token) InvalidateWithError(e error) error: the error returned
InvalidateWithError(e) == IF e.tokenErr THEN e ELSE [msg |-> e.msg, tokenErr |-> TRUE]

\* a comparison that also holds at the cutoff itself
BeforeOrAt(t, u) == t <= u

\* lease.Expire.Before(cutoff)
Before(t, u) == t < u

\* A client goroutine: pc is "idle" between calls, "Lookup", "UpdateOwner", "Update",
\* "UpdatePresent" or "UpdateCreate" inside a call
IdleClient == [pc |-> "idle", cid |-> "nil", newLeases |-> <<>>, token |-> NilTok,
               tokVal |-> [cid |-> "nil", revision |-> 0], prev |-> NoRec, val |-> 0]

\* An Expire call: "idle", "range" (in the sweep), "runlock" (sweep left), "wait"
\* (at callbacks.Wait())
IdleExpire == [pc |-> "idle", cutoff |-> 0, workAmount |-> 0, todo |-> {}, cleaned |-> 0,
               cleanupCandidates |-> <<>>, callbacks |-> 0]

IdleCleanup == [pc |-> "idle", candidates |-> <<>>, idx |-> 0]

NoDump == [c \in Cids |-> NilSlice]
IdleDump == [pc |-> "idle", todo |-> {}, out |-> NoDump]

\* The values a call returns: Lookup returns (leases, token), Update returns ret,
\* Expire returns cleaned (and the deferred handle, which is kl), Dump returns dump
NoEvent == [who |-> "none", op |-> "none", leases |-> <<>>, token |-> NilTok, ret |-> OK,
            cleaned |-> 0, dump |-> NoDump]
LookupReturn(t, leases, token) ==
  [NoEvent EXCEPT !.who = t, !.op = "Lookup", !.leases = leases, !.token = token]
UpdateReturn(t, ret) == [NoEvent EXCEPT !.who = t, !.op = "Update", !.ret = ret]
ExpireReturned(e, cleaned) == [NoEvent EXCEPT !.who = e, !.op = "Expire", !.cleaned = cleaned]
DumpReturned(d, dump) == [NoEvent EXCEPT !.who = d, !.op = "Dump", !.dump = dump]

\* a caller that holds no leases: a nil slice, which shares no memory
NoLeases == [leases |-> <<>>, shared |-> NoRec]

\* no sweep has emptied the record and been followed by no commit
NotSwept == [state |-> "no", looked |-> FALSE]

NewTokHist == [commits |-> 0, stale |-> FALSE, firstUse |-> "none", firstUser |-> "none"]
NoCallbacks == [owed |-> EmptyBag, stray |-> EmptyBag, calls |-> 0]

\* New(expirePeriod): an empty map and currentRev = 1
New ==
  /\ records = [c \in Cids |-> NoRec]
  /\ heap = [r \in RecIds |-> ZeroStorage]
  /\ currentRev = 1
  /\ keyR = {}
  /\ keyW = NoHolder

\* no goroutine has started, no token was minted
Quiet ==
  /\ tokens = [k \in TokIds |-> NewToken(NoOwner, 0)]
  /\ ntok = 0
  /\ cl = [t \in Clients |-> IdleClient]
  /\ ex = [e \in Expirers |-> IdleExpire]
  /\ tasks = [e \in Expirers |-> <<>>]
  /\ kl = [e \in Expirers |-> IdleCleanup]
  /\ dm = [d \in Dumpers |-> IdleDump]
  /\ panicked = FALSE
  /\ ev = NoEvent
  /\ tokHist = [k \in TokIds |-> NewTokHist]
  /\ cbHist = NoCallbacks
  /\ revLog = [c \in Cids |-> <<>>]
  /\ hist = [t \in Clients |-> <<>>]
  /\ mem = [t \in Clients |-> NoLeases]
  /\ swept = [c \in Cids |-> NotSwept]

Init == New /\ Quiet

(* ------------------------------- Lookup -------------------------------- *)

\* lstore.keyLock.RLock(); recs := lstore.records[cid]; lstore.keyLock.RUnlock()
LookupFetch(t, cid) ==
  /\ cl[t].pc = "idle"
  /\ keyW = NoHolder
  /\ cl' = [cl EXCEPT ![t] = [IdleClient EXCEPT !.pc = "Lookup", !.cid = cid,
                                                 !.prev = records[cid]]]
  /\ ev' = NoEvent
  /\ UNCHANGED <<storeVars, lockVars, tokVars, expVars, dm, panicked>>

\* recs.Lock(); copy the leases; revision = recs.revision; recs.Unlock();
\* mint the token and return
LookupRead(t) ==
  /\ cl[t].pc = "Lookup"
  /\ LET recs == cl[t].prev
         outLeases == IF recs # NoRec THEN duplicateAll(heap[recs].leases) ELSE <<>>
         revision == IF recs # NoRec THEN heap[recs].revision ELSE 0
         k == ntok + 1
     IN /\ recs # NoRec => heap[recs].lock = NoHolder
        /\ tokens' = [tokens EXCEPT
                        ![k] = NewToken(Self, [cid |-> cl[t].cid, revision |-> revision])]
        /\ ntok' = k
        /\ cl' = [cl EXCEPT ![t] = IdleClient]
        /\ ev' = LookupReturn(t, outLeases, k)
  /\ UNCHANGED <<storeVars, lockVars, expVars, dm, panicked>>

(* ------------------------------- Update -------------------------------- *)

\* tokVal, ok := token.Value.(tokenValue): whether the payload is a tokenValue
IsTokenValue(value) == DOMAIN value = {"cid", "revision"}

\* the checks after token.Valid() with the owner looked at last
UpdatePrecheckOwnerLast(cid, token) ==
  IF ~IsTokenValue(tokens[token].Value) THEN ErrCorrupted
  ELSE IF tokens[token].Value.cid # cid THEN ErrCidMismatch
  ELSE IF ~IsOwnedBy(token, Self) THEN ErrOtherPlugin
  ELSE OK

\* the checks of Update that follow token.Valid() (lines 110-121): the error of the
\* first one that fails, OK if all pass
UpdatePrecheck(cid, token) ==
  IF ~IsOwnedBy(token, Self) THEN ErrOtherPlugin
  ELSE IF ~IsTokenValue(tokens[token].Value) THEN ErrCorrupted
  ELSE IF tokens[token].Value.cid # cid THEN ErrCidMismatch
  ELSE OK

\* the call of Update and its first check, token.Valid(): a read of token.owner
UpdateCheck(t, cid, newLeases, token) ==
  /\ cl[t].pc = "idle"
  /\ IF ~Valid(token)
     THEN /\ cl' = [cl EXCEPT ![t] = IdleClient]
          /\ ev' = UpdateReturn(t, ErrAlreadyInvalid)
     ELSE /\ cl' = [cl EXCEPT ![t] = [IdleClient EXCEPT
                                        !.pc = "UpdateOwner", !.cid = cid,
                                        !.newLeases = newLeases, !.token = token]]
          /\ ev' = NoEvent
  /\ UNCHANGED <<storeVars, lockVars, tokVars, expVars, dm, panicked>>

\* token.IsOwnedBy(lstore), a second read of token.owner that no lock orders with
\* the first, then the checks of the payload and of the cid; a payload of another
\* type invalidates the token, and when all pass the call goes on with tokVal
UpdateOwner(t) ==
  /\ cl[t].pc = "UpdateOwner"
  /\ LET err == UpdatePrecheck(cl[t].cid, cl[t].token)
     IN IF err = OK
        THEN /\ cl' = [cl EXCEPT ![t].pc = "Update",
                                 ![t].tokVal = tokens[cl[t].token].Value]
             /\ ev' = NoEvent
             /\ UNCHANGED tokens
        ELSE IF err = ErrCorrupted
        THEN /\ tokens' = Invalidate(tokens, cl[t].token)
             /\ cl' = [cl EXCEPT ![t] = IdleClient]
             /\ ev' = UpdateReturn(t, InvalidateWithError(err))
        ELSE /\ cl' = [cl EXCEPT ![t] = IdleClient]
             /\ ev' = UpdateReturn(t, err)
             /\ UNCHANGED tokens
  /\ UNCHANGED <<storeVars, lockVars, ntok, expVars, dm, panicked>>

\* return token.InvalidateWithError(err)
UpdateFail(t, err) ==
  /\ tokens' = Invalidate(tokens, cl[t].token)
  /\ cl' = [cl EXCEPT ![t] = IdleClient]
  /\ ev' = UpdateReturn(t, InvalidateWithError(err))

\* a commit that reports the leases as changed under the caller
UpdateSucceedAsError(t) ==
  /\ tokens' = Invalidate(tokens, cl[t].token)
  /\ cl' = [cl EXCEPT ![t] = IdleClient]
  /\ ev' = UpdateReturn(t, ErrConcurrentUpdate)

\* token.Invalidate(); return nil
UpdateSucceed(t) ==
  /\ tokens' = Invalidate(tokens, cl[t].token)
  /\ cl' = [cl EXCEPT ![t] = IdleClient]
  /\ ev' = UpdateReturn(t, OK)

\* lstore.keyLock.RLock(); prev, already := lstore.records[cid]; RUnlock();
\* and, with no record, the check of the token's revision
UpdateFetch(t) ==
  /\ cl[t].pc = "Update"
  /\ keyW = NoHolder
  /\ LET prev == records[cl[t].cid]
     IN IF prev # NoRec
        THEN /\ cl' = [cl EXCEPT ![t].pc = "UpdatePresent", ![t].prev = prev]
             /\ ev' = NoEvent
             /\ UNCHANGED tokens
        ELSE IF cl[t].tokVal.revision # 0
        THEN UpdateFail(t, ErrConcurrentUpdate)
        ELSE /\ cl' = [cl EXCEPT ![t].pc = "UpdateCreate"]
             /\ ev' = NoEvent
             /\ UNCHANGED tokens
  /\ UNCHANGED <<storeVars, lockVars, ntok, expVars, dm, panicked>>

\* the record after the commit on an existing record (lines 138-143), given the
\* revision getRevision would return
commitPresent(rec, newLeases, rev) ==
  IF Len(newLeases) > 0
  THEN [rec EXCEPT !.leases = newLeases, !.revision = rev]
  ELSE reset(rec)

\* prev.Lock(); compare the revisions; commit; token.Invalidate(); prev.Unlock()
UpdatePresent(t) ==
  /\ cl[t].pc = "UpdatePresent"
  /\ LET prev == cl[t].prev
         rev == getRevision(currentRev)
     IN /\ heap[prev].lock = NoHolder
        /\ IF heap[prev].revision # cl[t].tokVal.revision
           THEN /\ UpdateFail(t, ErrConcurrentUpdate)
                /\ UNCHANGED <<heap, currentRev>>
           ELSE /\ heap' = [heap EXCEPT
                              ![prev] = commitPresent(@, cl[t].newLeases, rev)]
                /\ currentRev' = IF Len(cl[t].newLeases) > 0 THEN rev ELSE currentRev
                /\ UpdateSucceed(t)
  /\ UNCHANGED <<records, lockVars, ntok, expVars, dm, panicked>>

\* &storage{...}: a storage object that neither the map nor a goroutine refers to
newStorage ==
  CHOOSE r \in RecIds :
    /\ \A c \in Cids : records[c] # r
    /\ \A t \in Clients : cl[t].prev # r
    /\ \A q \in RecIds :
         ((\A c \in Cids : records[c] # q) /\ (\A t \in Clients : cl[t].prev # q)) => r <= q

\* lstore.keyLock.Lock(); re-check the map; insert the new record;
\* token.Invalidate(); lstore.keyLock.Unlock()
UpdateCreate(t) ==
  /\ cl[t].pc = "UpdateCreate"
  /\ keyW = NoHolder /\ keyR = {}
  /\ LET rev == getRevision(currentRev)
         r == newStorage
     IN IF records[cl[t].cid] # NoRec
        THEN /\ UpdateFail(t, ErrConcurrentUpdate)
             /\ UNCHANGED storeVars
        ELSE /\ heap' = [heap EXCEPT ![r] = [revision |-> rev,
                                             leases |-> cl[t].newLeases,
                                             lock |-> NoHolder]]
             /\ records' = [records EXCEPT ![cl[t].cid] = r]
             /\ currentRev' = rev
             /\ UpdateSucceed(t)
  /\ UNCHANGED <<lockVars, ntok, expVars, dm, panicked>>

(* ------------------------------- Expire -------------------------------- *)

\* cutoff := time.Now().Add(-expireGrace); lstore.keyLock.RLock();
\* the range over lstore.records starts. A caller starts its next Expire once the
\* goroutines of the previous one have ended
ExpireStart(e, workAmount, now) ==
  /\ ex[e].pc = "idle"
  /\ kl[e].pc = "idle"
  /\ tasks[e] = <<>>
  /\ keyW = NoHolder
  /\ keyR' = keyR \cup {e}
  /\ ex' = [ex EXCEPT ![e] = [IdleExpire EXCEPT
                                !.pc = "range", !.cutoff = now - expireGrace,
                                !.workAmount = workAmount,
                                !.todo = {c \in Cids : records[c] # NoRec}]]
  /\ ev' = NoEvent
  /\ UNCHANGED <<storeVars, keyW, tokVars, cl, tasks, kl, dm, panicked>>

\* the goroutine `go func() { lease.ExpireAction(lease.Elements, lease.Expire);
\* callbacks.Done() }()` spawned in iteration i (0-based) of the range over leases.
\* It closes over the loop variable `lease` (one variable for the whole loop, the
\* module is go 1.13) and reads it unsynchronised whenever it gets to run: leaseVar
\* lists the values the variable holds from the spawning iteration on
spawnCallback(leases, i) ==
  [pc |-> "spawned", leaseVar |-> SubSeq(leases, i + 1, Len(leases)),
   fn |-> NoAction, call |-> NilLease]

\* `for i, lease := range v.leases` (lines 228-257) from iteration i on;
\* acc holds cleanedLeases, cleaned and the goroutines spawned so far
RECURSIVE rangeLeases(_, _, _, _)
rangeLeases(leases, i, cutoff, acc) ==
  IF i >= Len(leases) THEN acc
  ELSE LET lease == leases[i + 1]
           started == IF acc.cleanedLeases.isNil THEN Slice(SubSeq(leases, 1, i))
                      ELSE acc.cleanedLeases
       IN IF Before(lease.Expire, cutoff)
          THEN rangeLeases(leases, i + 1, cutoff,
                 [cleanedLeases |-> started,
                  cleaned |-> acc.cleaned + 1,
                  spawned |-> IF lease.ExpireAction # NoAction
                              THEN Append(acc.spawned, spawnCallback(leases, i))
                              ELSE acc.spawned])
          ELSE IF ~acc.cleanedLeases.isNil
          THEN rangeLeases(leases, i + 1, cutoff,
                 [acc EXCEPT !.cleanedLeases = Slice(Append(@.s, lease))])
          ELSE rangeLeases(leases, i + 1, cutoff, acc)

\* the write-back of Expire without the new revision
expireCommitKeepRevision(rec, cleanedLeases, rev) ==
  IF cleanedLeases.isNil THEN rec
  ELSE IF Len(cleanedLeases.s) > 0
  THEN [rec EXCEPT !.leases = cleanedLeases.s]
  ELSE reset(rec)

\* the write-back of Expire that takes a new revision for every record it visits
expireCommitRevise(rec, cleanedLeases, rev) ==
  IF cleanedLeases.isNil THEN [rec EXCEPT !.revision = rev]
  ELSE IF Len(cleanedLeases.s) > 0
  THEN [rec EXCEPT !.leases = cleanedLeases.s, !.revision = rev]
  ELSE reset(rec)

\* the record after the range over its leases (lines 258-267), given the
\* revision getRevision would return
expireCommit(rec, cleanedLeases, rev) ==
  IF cleanedLeases.isNil THEN rec
  ELSE IF Len(cleanedLeases.s) > 0
  THEN [rec EXCEPT !.leases = cleanedLeases.s, !.revision = rev]
  ELSE reset(rec)

\* a sweep that stops only once it has gone over the budget
enoughOver(cleaned, workAmount) == cleaned > workAmount

\* whether the sweep stops after a record (lines 270-273)
enough(cleaned, workAmount) == cleaned >= workAmount

\* one (cid, v) of `for cid, v := range lstore.records`, under v's lock: a record
\* with revision 0 becomes a cleanup candidate, any other has its expired leases
\* removed; then the sweep goes on or breaks
ExpireRecord(e) ==
  /\ ex[e].pc = "range"
  /\ \E cid \in ex[e].todo :
       LET v == records[cid]
           rec == heap[v]
           res == rangeLeases(rec.leases, 0, ex[e].cutoff,
                              [cleanedLeases |-> NilSlice, cleaned |-> ex[e].cleaned,
                               spawned |-> <<>>])
           rev == getRevision(currentRev)
           rewritten == ~res.cleanedLeases.isNil
           emptied == rewritten /\ Len(res.cleanedLeases.s) = 0
       IN /\ rec.lock = NoHolder
          /\ IF rec.revision = 0
             THEN /\ ex' = [ex EXCEPT ![e].todo = @ \ {cid},
                                      ![e].cleanupCandidates = Append(@, cid)]
                  /\ UNCHANGED <<heap, currentRev, tasks>>
             ELSE /\ heap' = [heap EXCEPT
                                ![v] = expireCommit(rec, res.cleanedLeases, rev)]
                  /\ currentRev' = IF rewritten /\ ~emptied THEN rev ELSE currentRev
                  /\ tasks' = [tasks EXCEPT ![e] = @ \o res.spawned]
                  /\ ex' = [ex EXCEPT
                              ![e].pc = IF enough(res.cleaned, ex[e].workAmount)
                                        THEN "runlock" ELSE "range",
                              ![e].todo = @ \ {cid},
                              ![e].cleaned = res.cleaned,
                              ![e].callbacks = @ + Len(res.spawned),
                              ![e].cleanupCandidates =
                                 IF emptied THEN Append(@, cid) ELSE @]
  /\ ev' = NoEvent
  /\ UNCHANGED <<records, lockVars, tokVars, cl, kl, dm, panicked>>

\* the range over the records is exhausted
ExpireRangeEnd(e) ==
  /\ ex[e].pc = "range"
  /\ ex[e].todo = {}
  /\ ex' = [ex EXCEPT ![e].pc = "runlock"]
  /\ ev' = NoEvent
  /\ UNCHANGED <<storeVars, lockVars, tokVars, cl, tasks, kl, dm, panicked>>

\* Expire that goes to wait for its callbacks with the read lock still held
ExpireRUnlockKept(e) ==
  /\ ex[e].pc = "runlock"
  /\ kl' = [kl EXCEPT ![e] = [pc |-> "start", candidates |-> ex[e].cleanupCandidates,
                              idx |-> 1]]
  /\ ex' = [ex EXCEPT ![e].pc = "wait", ![e].todo = {}, ![e].cleanupCandidates = <<>>,
                      ![e].cutoff = 0, ![e].workAmount = 0]
  /\ ev' = NoEvent
  /\ UNCHANGED <<storeVars, lockVars, tokVars, cl, tasks, dm, panicked>>

\* lstore.keyLock.RUnlock(); deferred.Add(1); go lstore.cleanup(cleanupCandidates, deferred)
ExpireRUnlock(e) ==
  /\ ex[e].pc = "runlock"
  /\ keyR' = keyR \ {e}
  /\ kl' = [kl EXCEPT ![e] = [pc |-> "start", candidates |-> ex[e].cleanupCandidates,
                              idx |-> 1]]
  /\ ex' = [ex EXCEPT ![e].pc = "wait", ![e].todo = {}, ![e].cleanupCandidates = <<>>,
                      ![e].cutoff = 0, ![e].workAmount = 0]
  /\ ev' = NoEvent
  /\ UNCHANGED <<storeVars, keyW, tokVars, cl, tasks, dm, panicked>>

\* a Wait that does not wait
waitPassesAlways(counter) == TRUE

\* callbacks.Wait() passes when the counter of the WaitGroup is 0
waitPasses(counter) == counter = 0

\* callbacks.Wait(); return (cleaned, deferred)
ExpireReturn(e) ==
  /\ ex[e].pc = "wait"
  /\ waitPasses(ex[e].callbacks)
  /\ ex' = [ex EXCEPT ![e] = IdleExpire]
  /\ ev' = ExpireReturned(e, ex[e].cleaned)
  /\ UNCHANGED <<storeVars, lockVars, tokVars, cl, tasks, kl, dm, panicked>>

(* ---------------- the goroutine of an expireAction (lines 237-240) ----- *)

\* the goroutine evaluates the function value lease.ExpireAction: it reads the
\* variable as it is at that moment, one of the values from leaseVar
CallbackLoad(e, k) ==
  /\ tasks[e][k].pc = "spawned"
  /\ \E j \in 1 .. Len(tasks[e][k].leaseVar) :
       LET var == tasks[e][k].leaseVar
       IN tasks' = [tasks EXCEPT ![e][k].pc = "loaded",
                                 ![e][k].fn = var[j].ExpireAction,
                                 ![e][k].leaseVar = SubSeq(var, j, Len(var))]
  /\ ev' = NoEvent
  /\ UNCHANGED <<storeVars, lockVars, tokVars, cl, ex, kl, dm, panicked>>

\* it evaluates the arguments lease.Elements and lease.Expire from the variable as
\* it is then, and calls the function: calling a nil function panics
CallbackInvoke(e, k) ==
  /\ tasks[e][k].pc = "loaded"
  /\ IF tasks[e][k].fn = NoAction
     THEN /\ panicked' = TRUE
          /\ UNCHANGED tasks
     ELSE /\ \E j \in 1 .. Len(tasks[e][k].leaseVar) :
               LET lease == tasks[e][k].leaseVar[j]
               IN tasks' = [tasks EXCEPT
                              ![e][k].pc = "running",
                              ![e][k].leaseVar = <<>>,
                              ![e][k].call = Lease(lease.Elements, lease.Expire,
                                                   tasks[e][k].fn)]
          /\ UNCHANGED panicked
  /\ ev' = NoEvent
  /\ UNCHANGED <<storeVars, lockVars, tokVars, cl, ex, kl, dm>>

\* the callback returns; callbacks.Done(); the goroutine ends
CallbackDone(e, k) ==
  /\ tasks[e][k].pc = "running"
  /\ tasks' = [tasks EXCEPT ![e] = SubSeq(@, 1, k - 1) \o SubSeq(@, k + 1, Len(@))]
  /\ ex' = [ex EXCEPT ![e].callbacks = @ - 1]
  /\ ev' = NoEvent
  /\ UNCHANGED <<storeVars, lockVars, tokVars, cl, kl, dm, panicked>>

(* ------------------------------- cleanup ------------------------------- *)

\* cleanup that goes on to its candidates without keyLock
cleanupLockLate(e) ==
  /\ kl[e].pc = "start"
  /\ kl' = [kl EXCEPT ![e].pc = "loop"]
  /\ ev' = NoEvent
  /\ UNCHANGED <<storeVars, lockVars, tokVars, cl, ex, tasks, dm, panicked>>

\* lstore.keyLock.Lock()
cleanupLock(e) ==
  /\ kl[e].pc = "start"
  /\ keyW = NoHolder /\ keyR = {}
  /\ keyW' = cleanupOf(e)
  /\ kl' = [kl EXCEPT ![e].pc = "loop"]
  /\ ev' = NoEvent
  /\ UNCHANGED <<storeVars, keyR, tokVars, cl, ex, tasks, dm, panicked>>

\* cleanup that deletes nothing
deletableNever(rec) == FALSE

\* cleanup without the second look at the revision
deletableUnchecked(rec) == TRUE

\* whether cleanup deletes the record it has locked (lines 297-302)
deletable(rec) == rec.revision = 0

\* one candidate of `for _, c := range candidates`: a record still in the map is
\* locked, then unlocked and skipped if its revision is not 0, else deleted from
\* the map with its lock left held
cleanupCandidate(e) ==
  /\ kl[e].pc = "loop"
  /\ kl[e].idx <= Len(kl[e].candidates)
  /\ LET c == kl[e].candidates[kl[e].idx]
         stored == records[c]
     IN IF stored = NoRec
        THEN UNCHANGED <<records, heap>>
        ELSE /\ heap[stored].lock = NoHolder
             /\ IF deletable(heap[stored])
                THEN /\ records' = [records EXCEPT ![c] = NoRec]
                     /\ heap' = [heap EXCEPT ![stored].lock = cleanupOf(e)]
                ELSE UNCHANGED <<records, heap>>
  /\ kl' = [kl EXCEPT ![e].idx = @ + 1]
  /\ ev' = NoEvent
  /\ UNCHANGED <<currentRev, lockVars, tokVars, cl, ex, tasks, dm, panicked>>

\* lstore.keyLock.Unlock(); wg.Done()
cleanupUnlock(e) ==
  /\ kl[e].pc = "loop"
  /\ kl[e].idx > Len(kl[e].candidates)
  /\ keyW' = NoHolder
  /\ kl' = [kl EXCEPT ![e] = IdleCleanup]
  /\ ev' = NoEvent
  /\ UNCHANGED <<storeVars, keyR, tokVars, cl, ex, tasks, dm, panicked>>

(* -------------------------------- Dump --------------------------------- *)

\* lstore.keyLock.RLock(); the range over lstore.records starts
DumpStart(d) ==
  /\ dm[d].pc = "idle"
  /\ keyW = NoHolder
  /\ keyR' = keyR \cup {d}
  /\ dm' = [dm EXCEPT ![d] = [pc |-> "range", todo |-> {c \in Cids : records[c] # NoRec},
                              out |-> NoDump]]
  /\ ev' = NoEvent
  /\ UNCHANGED <<storeVars, keyW, tokVars, cl, expVars, panicked>>

\* one (k, v) of the range: v.Lock(); copy the leases; v.Unlock()
DumpRecord(d) ==
  /\ dm[d].pc = "range"
  /\ \E k \in dm[d].todo :
       LET v == records[k]
       IN /\ heap[v].lock = NoHolder
          /\ dm' = [dm EXCEPT ![d].todo = @ \ {k},
                              ![d].out[k] = Slice(duplicateAll(heap[v].leases))]
  /\ ev' = NoEvent
  /\ UNCHANGED <<storeVars, lockVars, tokVars, cl, expVars, panicked>>

\* lstore.keyLock.RUnlock(); return out
DumpReturn(d) ==
  /\ dm[d].pc = "range"
  /\ dm[d].todo = {}
  /\ keyR' = keyR \ {d}
  /\ dm' = [dm EXCEPT ![d] = IdleDump]
  /\ ev' = DumpReturned(d, dm[d].out)
  /\ UNCHANGED <<storeVars, keyW, tokVars, cl, expVars, panicked>>

(* ----------------------- what a step has done -------------------------- *)
(* The history variables, and the memory of the callers, are not touched   *)
(* by the actions above: each specification below says which of them it    *)
(* keeps, as a function of the step taken.                                 *)

InUpdate == {"Update", "UpdatePresent", "UpdateCreate"}
\* the positions of an Update call inside its precondition checks
InChecks == {"idle", "UpdateOwner"}

\* the step passes the precondition checks of an Update call of t
Enters(t) == cl[t].pc = "UpdateOwner" /\ cl'[t].pc = "Update"
\* the step returns from a Lookup call of t
LookupReturns(t) == ev'.who = t /\ ev'.op = "Lookup"
\* the step returns from an Update call of t that had passed the checks
UpdateReturns(t) == ev'.who = t /\ ev'.op = "Update" /\ cl[t].pc \in InUpdate
\* the step returns from an Update call of t that failed the checks
UpdateRefused(t) == ev'.who = t /\ ev'.op = "Update" /\ cl[t].pc \in InChecks
\* the step commits the Update call of t: it returns nil
Commits(t) == UpdateReturns(t) /\ ev'.ret = OK
\* the step is the visit of the record of cid by the sweep of e
Sweeps(e, cid) == ex[e].pc = "range" /\ cid \in ex[e].todo /\ cid \notin ex'[e].todo
\* the leases the visit of a record by a sweep with this cutoff removes
Reaped(leases, cutoff) == SelectSeq(leases, LAMBDA l : Before(l.Expire, cutoff))
\* the step is a sweep visit that removes leases from the record of cid
Reaps(e, cid) ==
  Sweeps(e, cid) /\ heap[records[cid]].revision # 0
                 /\ Reaped(heap[records[cid]].leases, ex[e].cutoff) # <<>>
\* the step is the call of an expireAction by goroutine k of e
Invokes(e, k) ==
  Len(tasks'[e]) = Len(tasks[e]) /\ tasks[e][k].pc = "loaded" /\ tasks'[e][k].pc = "running"

\* the revision of the record of cid after the step (0 with no record)
RevAfter(cid) == IF records'[cid] = NoRec THEN 0 ELSE heap'[records'[cid]].revision

\* revLog after the step: the non-zero revision a commit or a reap has written
RevLogged ==
  [c \in Cids |->
     IF /\ \/ \E t \in Clients : Commits(t) /\ cl[t].cid = c
           \/ \E e \in Expirers : Reaps(e, c)
        /\ RevAfter(c) # 0
     THEN Append(revLog[c], RevAfter(c)) ELSE revLog[c]]

\* tokHist after the step. A commit with another token, or a reap, on the record
\* of a token's ClientID makes the token stale if it was not used yet; the first
\* Update call that passes the checks with a token is its first use (of a fresh
\* or of a stale token) and the return of that call settles how it ended
TokHistory ==
  [k \in TokIds |->
     LET h == tokHist[k]
         cid == tokens[k].Value.cid
         minted == k <= ntok
         staled == /\ minted /\ h.firstUse = "none"
                   /\ \/ \E t \in Clients : Commits(t) /\ cl[t].cid = cid /\ cl[t].token # k
                      \/ \E e \in Expirers : Reaps(e, cid)
         entering == {t \in Clients : Enters(t) /\ cl[t].token = k}
         returning == {t \in Clients : UpdateReturns(t) /\ cl[t].token = k}
         h1 == IF staled THEN [h EXCEPT !.stale = TRUE] ELSE h
         h2 == IF entering # {} /\ h.firstUse = "none"
               THEN [h1 EXCEPT !.firstUse = IF h.stale THEN "stale" ELSE "fresh",
                               !.firstUser = CHOOSE t \in entering : TRUE]
               ELSE h1
         h3 == IF \E t \in returning : h.firstUser = t
               THEN [h2 EXCEPT
                       !.firstUser = "done",
                       !.firstUse = IF h.firstUse # "stale" THEN "used"
                                    ELSE IF ev'.ret = ErrConcurrentUpdate
                                    THEN "rejected" ELSE "accepted"]
               ELSE h2
     IN IF \E t \in returning : Commits(t)
        THEN [h3 EXCEPT !.commits = @ + 1] ELSE h3]

\* b1 with the elements it shares with b2 cancelled
BagMinus(b1, b2) ==
  LET left == {x \in BagToSet(b1) : CopiesIn(x, b1) > CopiesIn(x, b2)}
  IN [x \in left |-> CopiesIn(x, b1) - CopiesIn(x, b2)]

SeqToBag(q) ==
  LET els == {q[i] : i \in 1 .. Len(q)}
  IN [x \in els |-> Cardinality({i \in 1 .. Len(q) : q[i] = x})]

\* cbHist after the step: a reap owes one call (its expireAction, with its elements
\* and expire) per removed lease that has an expireAction; a call made settles one
\* owed call with the same function and arguments, or else is a stray call
CallbackHistory ==
  LET due ==
        IF \E e \in Expirers, c \in Cids : Reaps(e, c)
        THEN LET e == CHOOSE e \in Expirers : \E c \in Cids : Reaps(e, c)
                 c == CHOOSE c \in Cids : Reaps(e, c)
             IN SeqToBag(SelectSeq(Reaped(heap[records[c]].leases, ex[e].cutoff),
                                   LAMBDA l : l.ExpireAction # NoAction))
        ELSE EmptyBag
      made ==
        IF \E e \in Expirers : \E k \in 1 .. Len(tasks[e]) : Invokes(e, k)
        THEN LET e == CHOOSE e \in Expirers : \E k \in 1 .. Len(tasks[e]) : Invokes(e, k)
                 k == CHOOSE k \in 1 .. Len(tasks[e]) : Invokes(e, k)
             IN SetToBag({tasks'[e][k].call})
        ELSE EmptyBag
      owed == cbHist.owed (+) due
      stray == cbHist.stray (+) made
  IN [owed |-> BagMinus(owed, stray), stray |-> BagMinus(stray, owed),
      calls |-> cbHist.calls + BagCardinality(made)]

\* hist after the step: the calls that return in it
CallHistory ==
  [t \in Clients |->
     IF LookupReturns(t)
     THEN Append(hist[t], [op |-> "Lookup", token |-> ev'.token, ret |-> OK])
     ELSE IF UpdateReturns(t)
     THEN Append(hist[t], [op |-> "Update", token |-> cl[t].token, ret |-> ev'.ret])
     ELSE IF UpdateRefused(t)
     THEN Append(hist[t], [op |-> "Update", token |-> NilTok, ret |-> ev'.ret])
     ELSE hist[t]]

(* --------------------------- specifications ---------------------------- *)
(* Each specification interleaves some of the goroutines, bounds their     *)
(* inputs, and conjoins to every step the history its properties need.     *)

\* the Lookup calls started so far: each mints one token
Lookups == ntok + Cardinality({u \in Clients : cl[u].pc = "Lookup"})

\* Two clients working on one ClientID and the Expire sweeps with their cleanup,
\* on leases that carry no expireAction; the history kept is the log of the
\* revisions written
StoreLeases == {<<>>, <<Le>>, <<Le, Lv>>}
StoreHistory == revLog' = RevLogged /\ UNCHANGED <<tokHist, cbHist, hist, mem, swept>>
NextStore ==
  \/ \E t \in Clients, cid \in {"A"} : Lookups < StoreLookups /\ LookupFetch(t, cid) /\ StoreHistory
  \/ \E t \in Clients : LookupRead(t) /\ StoreHistory
  \/ \E t \in Clients, cid \in {"A"}, newLeases \in StoreLeases, token \in 0 .. ntok :
       UpdateCheck(t, cid, newLeases, token) /\ StoreHistory
  \/ \E t \in Clients : UpdateOwner(t) /\ StoreHistory
  \/ \E t \in Clients : UpdateFetch(t) /\ StoreHistory
  \/ \E t \in Clients : UpdatePresent(t) /\ StoreHistory
  \/ \E t \in Clients : UpdateCreate(t) /\ StoreHistory
  \/ \E e \in Expirers, workAmount \in 1 .. MaxWork, now \in 1 .. MaxNow :
       ExpireStart(e, workAmount, now) /\ StoreHistory
  \/ \E e \in Expirers : ExpireRecord(e) /\ StoreHistory
  \/ \E e \in Expirers : ExpireRangeEnd(e) /\ StoreHistory
  \/ \E e \in Expirers : ExpireRUnlock(e) /\ StoreHistory
  \/ \E e \in Expirers : ExpireReturn(e) /\ StoreHistory
  \/ \E e \in Expirers : cleanupLock(e) /\ StoreHistory
  \/ \E e \in Expirers : cleanupCandidate(e) /\ StoreHistory
  \/ \E e \in Expirers : cleanupUnlock(e) /\ StoreHistory

SpecStore == Init /\ [][NextStore]_vars

\* One client per ClientID and the Expire sweeps with their cleanup: two records
\* live side by side
OwnCid(t) == IF t = "c1" THEN {"A"} ELSE {"B"}
NextRecords ==
  \/ \E t \in Clients : \E cid \in OwnCid(t) : Lookups < StoreLookups /\ LookupFetch(t, cid) /\ StoreHistory
  \/ \E t \in Clients : LookupRead(t) /\ StoreHistory
  \/ \E t \in Clients : \E cid \in OwnCid(t), newLeases \in StoreLeases, token \in 0 .. ntok :
       UpdateCheck(t, cid, newLeases, token) /\ StoreHistory
  \/ \E t \in Clients : UpdateOwner(t) /\ StoreHistory
  \/ \E t \in Clients : UpdateFetch(t) /\ StoreHistory
  \/ \E t \in Clients : UpdatePresent(t) /\ StoreHistory
  \/ \E t \in Clients : UpdateCreate(t) /\ StoreHistory
  \/ \E e \in Expirers, workAmount \in 1 .. MaxWork, now \in 1 .. MaxNow :
       ExpireStart(e, workAmount, now) /\ StoreHistory
  \/ \E e \in Expirers : ExpireRecord(e) /\ StoreHistory
  \/ \E e \in Expirers : ExpireRangeEnd(e) /\ StoreHistory
  \/ \E e \in Expirers : ExpireRUnlock(e) /\ StoreHistory
  \/ \E e \in Expirers : ExpireReturn(e) /\ StoreHistory
  \/ \E e \in Expirers : cleanupLock(e) /\ StoreHistory
  \/ \E e \in Expirers : cleanupCandidate(e) /\ StoreHistory
  \/ \E e \in Expirers : cleanupUnlock(e) /\ StoreHistory

SpecRecords == Init /\ [][NextRecords]_vars

\* One client making up to MaxTokens Lookups of one ClientID, and the Expire sweeps
\* with their cleanup
NextSolo ==
  \/ \E t \in {"c1"}, cid \in {"A"} : Lookups < MaxTokens /\ LookupFetch(t, cid) /\ StoreHistory
  \/ \E t \in {"c1"} : LookupRead(t) /\ StoreHistory
  \/ \E t \in {"c1"}, cid \in {"A"}, newLeases \in StoreLeases, token \in 0 .. ntok :
       UpdateCheck(t, cid, newLeases, token) /\ StoreHistory
  \/ \E t \in {"c1"} : UpdateOwner(t) /\ StoreHistory
  \/ \E t \in {"c1"} : UpdateFetch(t) /\ StoreHistory
  \/ \E t \in {"c1"} : UpdatePresent(t) /\ StoreHistory
  \/ \E t \in {"c1"} : UpdateCreate(t) /\ StoreHistory
  \/ \E e \in Expirers, workAmount \in 1 .. MaxWork, now \in 1 .. MaxNow :
       ExpireStart(e, workAmount, now) /\ StoreHistory
  \/ \E e \in Expirers : ExpireRecord(e) /\ StoreHistory
  \/ \E e \in Expirers : ExpireRangeEnd(e) /\ StoreHistory
  \/ \E e \in Expirers : ExpireRUnlock(e) /\ StoreHistory
  \/ \E e \in Expirers : ExpireReturn(e) /\ StoreHistory
  \/ \E e \in Expirers : cleanupLock(e) /\ StoreHistory
  \/ \E e \in Expirers : cleanupCandidate(e) /\ StoreHistory
  \/ \E e \in Expirers : cleanupUnlock(e) /\ StoreHistory

SpecSolo == Init /\ [][NextSolo]_vars

\* Two clients working on one ClientID with up to MaxTokens Lookups and any
\* token minted so far; the history kept is that of the tokens
TokenLeases == {<<>>, <<Lv>>}
TokenHistory == tokHist' = TokHistory /\ UNCHANGED <<cbHist, revLog, hist, mem, swept>>
NextTokens ==
  \/ \E t \in Clients, cid \in {"A"} : Lookups < MaxTokens /\ LookupFetch(t, cid) /\ TokenHistory
  \/ \E t \in Clients : LookupRead(t) /\ TokenHistory
  \/ \E t \in Clients, cid \in {"A"}, newLeases \in TokenLeases, token \in 0 .. ntok :
       UpdateCheck(t, cid, newLeases, token) /\ TokenHistory
  \/ \E t \in Clients : UpdateOwner(t) /\ TokenHistory
  \/ \E t \in Clients : UpdateFetch(t) /\ TokenHistory
  \/ \E t \in Clients : UpdatePresent(t) /\ TokenHistory
  \/ \E t \in Clients : UpdateCreate(t) /\ TokenHistory

SpecTokens == Init /\ [][NextTokens]_vars

\* The states a store can be in before two Lookup/Update cycles for ClientID "A":
\* no record, a record emptied by an earlier commit (revision 0), or a record that
\* holds a lease under the revision taken last
InitRestart ==
  /\ \/ /\ records = [c \in Cids |-> NoRec]
        /\ heap = [r \in RecIds |-> ZeroStorage]
        /\ currentRev \in {1, 2}
     \/ /\ records = [c \in Cids |-> IF c = "A" THEN 1 ELSE NoRec]
        /\ heap = [r \in RecIds |-> ZeroStorage]
        /\ currentRev = 2
     \/ /\ records = [c \in Cids |-> IF c = "A" THEN 1 ELSE NoRec]
        /\ heap = [r \in RecIds |->
                     IF r = 1 THEN [ZeroStorage EXCEPT !.revision = 2, !.leases = <<Lv>>]
                     ELSE ZeroStorage]
        /\ currentRev = 2
  /\ keyR = {}
  /\ keyW = NoHolder
  /\ Quiet

\* the calls of client t that have returned
Calls(t) == Len(hist[t])
\* client t lost the first round: its Update returned an error
Lost(t) == Calls(t) >= 2 /\ hist[t][2].ret # OK
\* no client is inside a call
AllIdle == \A u \in Clients : cl[u].pc = "idle"

\* client t may start a Lookup: its first one, or, once both Updates of the first
\* round have returned and nothing else runs, the one that restarts a lost cycle
MayLookup(t) ==
  \/ Calls(t) = 0
  \/ /\ Calls(t) = 2 /\ Lost(t) /\ AllIdle
     /\ \A u \in Clients : Calls(u) = 2

\* client t may start an Update: when every client has finished its Lookup, and
\* with the token that its last Lookup returned
MayUpdate(t, token) ==
  /\ Calls(t) \in {1, 3}
  /\ \A u \in Clients : Calls(u) >= 1
  /\ token = hist[t][Calls(t)].token

\* Two Lookup/Update cycles for ClientID "A" whose Lookups both finish before either
\* Update starts, and then the restart of a cycle that lost
RestartLeases == {<<>>, <<Lv>>, <<Le>>}
RestartHistory == hist' = CallHistory /\ UNCHANGED <<tokHist, cbHist, revLog, mem, swept>>
NextRestart ==
  \/ \E t \in Clients : MayLookup(t) /\ LookupFetch(t, "A") /\ RestartHistory
  \/ \E t \in Clients : LookupRead(t) /\ RestartHistory
  \/ \E t \in Clients, newLeases \in RestartLeases, token \in 1 .. ntok :
       MayUpdate(t, token) /\ UpdateCheck(t, "A", newLeases, token) /\ RestartHistory
  \/ \E t \in Clients : UpdateOwner(t) /\ RestartHistory
  \/ \E t \in Clients : UpdateFetch(t) /\ RestartHistory
  \/ \E t \in Clients : UpdatePresent(t) /\ RestartHistory
  \/ \E t \in Clients : UpdateCreate(t) /\ RestartHistory

SpecRestart == InitRestart /\ [][NextRestart]_vars

\* One client committing leases that carry expireActions, the Expire sweeps with
\* their cleanup, and the goroutines of the expireActions; a panic ends the
\* process. The history kept is that of the expireAction calls
ExpireLeases == {<<La, Lb>>, <<La, Ld>>, <<La, Lc>>}
Alive == ~panicked
ExpireHistory == cbHist' = CallbackHistory /\ UNCHANGED <<tokHist, revLog, hist, mem, swept>>
NextExpire ==
  \/ \E t \in {"c1"}, cid \in {"A"} : Alive /\ Lookups < StoreLookups /\ LookupFetch(t, cid) /\ ExpireHistory
  \/ \E t \in {"c1"} : Alive /\ LookupRead(t) /\ ExpireHistory
  \/ \E t \in {"c1"}, cid \in {"A"}, newLeases \in ExpireLeases, token \in 0 .. ntok :
       Alive /\ UpdateCheck(t, cid, newLeases, token) /\ ExpireHistory
  \/ \E t \in {"c1"} : Alive /\ UpdateOwner(t) /\ ExpireHistory
  \/ \E t \in {"c1"} : Alive /\ UpdateFetch(t) /\ ExpireHistory
  \/ \E t \in {"c1"} : Alive /\ UpdatePresent(t) /\ ExpireHistory
  \/ \E t \in {"c1"} : Alive /\ UpdateCreate(t) /\ ExpireHistory
  \/ \E e \in Expirers, workAmount \in 1 .. MaxWork, now \in 1 .. MaxNow :
       Alive /\ ExpireStart(e, workAmount, now) /\ ExpireHistory
  \/ \E e \in Expirers : Alive /\ ExpireRecord(e) /\ ExpireHistory
  \/ \E e \in Expirers : Alive /\ ExpireRangeEnd(e) /\ ExpireHistory
  \/ \E e \in Expirers : Alive /\ ExpireRUnlock(e) /\ ExpireHistory
  \/ \E e \in Expirers : Alive /\ ExpireReturn(e) /\ ExpireHistory
  \/ \E e \in Expirers : Alive /\ cleanupLock(e) /\ ExpireHistory
  \/ \E e \in Expirers : Alive /\ cleanupCandidate(e) /\ ExpireHistory
  \/ \E e \in Expirers : Alive /\ cleanupUnlock(e) /\ ExpireHistory
  \/ \E e \in Expirers : \E k \in 1 .. Len(tasks[e]) : Alive /\ CallbackLoad(e, k) /\ ExpireHistory
  \/ \E e \in Expirers : \E k \in 1 .. Len(tasks[e]) : Alive /\ CallbackInvoke(e, k) /\ ExpireHistory
  \/ \E e \in Expirers : \E k \in 1 .. Len(tasks[e]) : Alive /\ CallbackDone(e, k) /\ ExpireHistory

SpecExpire == Init /\ [][NextExpire]_vars

\* One client, one caller of Dump, one caller of Expire and its cleanup, under
\* fair scheduling: a goroutine inside a call takes its next step if that step
\* stays enabled, and a goroutine waiting for keyLock gets it if it is free again
\* and again (sync.RWMutex hands the lock to a waiter); no call has to be started
LiveLeases == {<<>>, <<Le>>}
LiveHistory == UNCHANGED <<tokHist, cbHist, revLog, hist, mem, swept>>
NextLive ==
  \/ \E t \in {"c1"}, cid \in {"A"} : Lookups < StoreLookups /\ LookupFetch(t, cid) /\ LiveHistory
  \/ \E t \in {"c1"} : LookupRead(t) /\ LiveHistory
  \/ \E t \in {"c1"}, cid \in {"A"}, newLeases \in LiveLeases, token \in 0 .. ntok :
       UpdateCheck(t, cid, newLeases, token) /\ LiveHistory
  \/ \E t \in {"c1"} : UpdateOwner(t) /\ LiveHistory
  \/ \E t \in {"c1"} : UpdateFetch(t) /\ LiveHistory
  \/ \E t \in {"c1"} : UpdatePresent(t) /\ LiveHistory
  \/ \E t \in {"c1"} : UpdateCreate(t) /\ LiveHistory
  \/ \E e \in Expirers, workAmount \in {MaxWork}, now \in {MaxNow} :
       ExpireStart(e, workAmount, now) /\ LiveHistory
  \/ \E e \in Expirers : ExpireRecord(e) /\ LiveHistory
  \/ \E e \in Expirers : ExpireRangeEnd(e) /\ LiveHistory
  \/ \E e \in Expirers : ExpireRUnlock(e) /\ LiveHistory
  \/ \E e \in Expirers : ExpireReturn(e) /\ LiveHistory
  \/ \E e \in Expirers : cleanupLock(e) /\ LiveHistory
  \/ \E e \in Expirers : cleanupCandidate(e) /\ LiveHistory
  \/ \E e \in Expirers : cleanupUnlock(e) /\ LiveHistory
  \/ \E d \in Dumpers : DumpStart(d) /\ LiveHistory
  \/ \E d \in Dumpers : DumpRecord(d) /\ LiveHistory
  \/ \E d \in Dumpers : DumpReturn(d) /\ LiveHistory

Fairness ==
  /\ \A t \in Clients :
       /\ WF_vars(LookupRead(t) /\ LiveHistory)
       /\ WF_vars(UpdateOwner(t) /\ LiveHistory)
       /\ SF_vars(UpdateFetch(t) /\ LiveHistory)
       /\ WF_vars(UpdatePresent(t) /\ LiveHistory)
       /\ SF_vars(UpdateCreate(t) /\ LiveHistory)
  /\ \A e \in Expirers :
       /\ WF_vars(ExpireRecord(e) /\ LiveHistory)
       /\ WF_vars(ExpireRangeEnd(e) /\ LiveHistory)
       /\ WF_vars(ExpireRUnlock(e) /\ LiveHistory)
       /\ WF_vars(ExpireReturn(e) /\ LiveHistory)
       /\ SF_vars(cleanupLock(e) /\ LiveHistory)
       /\ WF_vars(cleanupCandidate(e) /\ LiveHistory)
       /\ WF_vars(cleanupUnlock(e) /\ LiveHistory)
  /\ \A d \in Dumpers :
       /\ WF_vars(DumpRecord(d) /\ LiveHistory)
       /\ WF_vars(DumpReturn(d) /\ LiveHistory)

SpecLive == Init /\ [][NextLive]_vars /\ Fairness

\* Two clients calling Lookup for ClientID "A" and Update for any ClientID, with
\* any token: nil, one minted here, a valid token of another store, or a token of
\* this store whose payload is not a tokenValue. The history kept is, per client,
\* the arguments and the result of its last Update call
Other == "other"
OtherPayload == [payload |-> "other"]
ForeignTok == MaxTokens + 1
CorruptTok == MaxTokens + 2
InitChecks ==
  /\ New
  /\ tokens = [k \in 1 .. CorruptTok |->
                 IF k = ForeignTok THEN NewToken(Other, [cid |-> "A", revision |-> 0])
                 ELSE IF k = CorruptTok THEN NewToken(Self, OtherPayload)
                 ELSE NewToken(NoOwner, 0)]
  /\ ntok = 0
  /\ cl = [t \in Clients |-> IdleClient]
  /\ ex = [e \in Expirers |-> IdleExpire]
  /\ tasks = [e \in Expirers |-> <<>>]
  /\ kl = [e \in Expirers |-> IdleCleanup]
  /\ dm = [d \in Dumpers |-> IdleDump]
  /\ panicked = FALSE
  /\ ev = NoEvent
  /\ tokHist = [k \in TokIds |-> NewTokHist]
  /\ cbHist = NoCallbacks
  /\ revLog = [c \in Cids |-> <<>>]
  /\ hist = [t \in Clients |-> <<>>]
  /\ mem = [t \in Clients |-> NoLeases]
  /\ swept = [c \in Cids |-> NotSwept]

\* the result logged for a call that has not returned yet
Pending == [msg |-> "pending", tokenErr |-> FALSE]
\* hist after the step that starts the call Update(cid, _, token) of client t
CallLogged(t, cid, token) ==
  /\ hist' = [hist EXCEPT ![t] = <<[op |-> "Update", cid |-> cid, token |-> token,
                                    ret |-> IF ev'.op = "Update" THEN ev'.ret
                                            ELSE Pending]>>]
  /\ UNCHANGED <<tokHist, cbHist, revLog, mem, swept>>
\* hist after any other step: the result of the Update call that returns in it
ReturnLogged ==
  /\ hist' = [t \in Clients |->
                IF ev'.who = t /\ ev'.op = "Update"
                THEN <<[hist[t][1] EXCEPT !.ret = ev'.ret]>> ELSE hist[t]]
  /\ UNCHANGED <<tokHist, cbHist, revLog, mem, swept>>
ChecksTokens == (0 .. ntok) \cup {ForeignTok, CorruptTok}
NextChecks ==
  \/ \E t \in Clients, cid \in {"A"} : Lookups < StoreLookups /\ LookupFetch(t, cid) /\ ReturnLogged
  \/ \E t \in Clients : LookupRead(t) /\ ReturnLogged
  \/ \E t \in Clients, cid \in Cids, newLeases \in TokenLeases, token \in ChecksTokens :
       UpdateCheck(t, cid, newLeases, token) /\ CallLogged(t, cid, token)
  \/ \E t \in Clients : UpdateOwner(t) /\ ReturnLogged
  \/ \E t \in Clients : UpdateFetch(t) /\ ReturnLogged
  \/ \E t \in Clients : UpdatePresent(t) /\ ReturnLogged
  \/ \E t \in Clients : UpdateCreate(t) /\ ReturnLogged

SpecChecks == InitChecks /\ [][NextChecks]_vars

\* Two clients that keep the []Lease their last Lookup returned, write into it
\* (the Expire of an entry, or the bytes of its Elements) and pass it to Update,
\* and a caller of Dump, on a store that is new or holds a record for ClientID
\* "A". mem keeps the leases each client holds, and the record whose leases are
\* that same memory
InitAlias ==
  /\ \/ /\ records = [c \in Cids |-> NoRec]
        /\ heap = [r \in RecIds |-> ZeroStorage]
        /\ currentRev = 1
     \/ /\ records = [c \in Cids |-> IF c = "A" THEN 1 ELSE NoRec]
        /\ heap = [r \in RecIds |->
                     IF r = 1 THEN [ZeroStorage EXCEPT !.revision = 2, !.leases = <<Lv>>]
                     ELSE ZeroStorage]
        /\ currentRev = 2
  /\ keyR = {}
  /\ keyW = NoHolder
  /\ Quiet

\* mem after a step of the store: Lookup hands out the copies it made, which share
\* no memory with a record; a commit of a non-empty newLeases stores the slice it
\* was passed (prev.leases = newLeases, leases: newLeases), so the record shares the
\* memory of the caller's slice until another commit replaces its leases
AliasKept ==
  /\ mem' = [t \in Clients |->
               IF LookupReturns(t) THEN [leases |-> ev'.leases, shared |-> NoRec]
               ELSE IF Commits(t)
               THEN [mem[t] EXCEPT !.shared = IF Len(cl[t].newLeases) > 0
                                             THEN records'[cl[t].cid] ELSE NoRec]
               ELSE IF \E u \in Clients : Commits(u) /\ records'[cl[u].cid] = mem[t].shared
               THEN [mem[t] EXCEPT !.shared = NoRec]
               ELSE mem[t]]
  /\ UNCHANGED <<tokHist, cbHist, revLog, hist, swept>>

\* client t, outside any call, stores into the memory of the slice it holds, with
\* no lock: the memory then holds leases, for whoever refers to it
CallerWrite(t, leases) ==
  /\ cl[t].pc = "idle"
  /\ leases # mem[t].leases
  /\ mem' = [mem EXCEPT ![t].leases = leases]
  /\ heap' = IF mem[t].shared # NoRec
             THEN [heap EXCEPT ![mem[t].shared].leases = leases] ELSE heap
  /\ ev' = NoEvent
  /\ UNCHANGED <<records, currentRev, lockVars, tokVars, cl, expVars, dm, panicked,
                 tokHist, cbHist, revLog, hist, swept>>

\* leases[i].Expire = expire
WriteExpire(t, i, expire) ==
  CallerWrite(t, [mem[t].leases EXCEPT ![i].Expire = expire])
\* a store into the bytes of leases[i].Elements
WriteElements(t, i, elements) ==
  CallerWrite(t, [mem[t].leases EXCEPT ![i].Elements = elements])

WrittenExpires == {0}
WrittenElements == {8}
NextAlias ==
  \/ \E t \in Clients, cid \in {"A"} : Lookups < StoreLookups /\ LookupFetch(t, cid) /\ AliasKept
  \/ \E t \in Clients : LookupRead(t) /\ AliasKept
  \/ \E t \in Clients, cid \in {"A"}, token \in 1 .. ntok :
       UpdateCheck(t, cid, mem[t].leases, token) /\ AliasKept
  \/ \E t \in Clients : UpdateOwner(t) /\ AliasKept
  \/ \E t \in Clients : UpdateFetch(t) /\ AliasKept
  \/ \E t \in Clients : UpdatePresent(t) /\ AliasKept
  \/ \E t \in Clients : UpdateCreate(t) /\ AliasKept
  \/ \E d \in Dumpers : DumpStart(d) /\ AliasKept
  \/ \E d \in Dumpers : DumpRecord(d) /\ AliasKept
  \/ \E d \in Dumpers : DumpReturn(d) /\ AliasKept
  \/ \E t \in Clients : \E i \in 1 .. Len(mem[t].leases), expire \in WrittenExpires :
       WriteExpire(t, i, expire)
  \/ \E t \in Clients : \E i \in 1 .. Len(mem[t].leases), elements \in WrittenElements :
       WriteElements(t, i, elements)

SpecAlias == InitAlias /\ [][NextAlias]_vars

\* the step is a sweep visit by e that removes the last leases of the record of cid
Empties(e, cid) == Reaps(e, cid) /\ heap'[records[cid]].leases = <<>>
\* the step ends the cleanup goroutine of e: the deferred handle completes
Completes(e) == kl[e].pc = "loop" /\ kl'[e].pc = "idle"
\* cid is one of the candidates handed to the cleanup goroutine of e
Candidate(e, cid) == \E i \in 1 .. Len(kl[e].candidates) : kl[e].candidates[i] = cid

\* swept after the step: a commit for the ClientID forgets the sweep; a sweep that
\* empties the record starts afresh; then the end of the cleanup that was handed
\* the ClientID, and the Lookups of it that return, are noted
SweptKept ==
  /\ swept' = [c \in Cids |->
                 IF \E t \in Clients : Commits(t) /\ cl[t].cid = c THEN NotSwept
                 ELSE IF \E e \in Expirers : Empties(e, c)
                 THEN [state |-> "emptied", looked |-> FALSE]
                 ELSE IF swept[c].state = "emptied"
                         /\ \E e \in Expirers : Completes(e) /\ Candidate(e, c)
                 THEN [swept[c] EXCEPT !.state = "reclaimed"]
                 ELSE IF swept[c].state # "no"
                         /\ \E t \in Clients : LookupReturns(t) /\ cl[t].cid = c
                 THEN [swept[c] EXCEPT !.looked = TRUE]
                 ELSE swept[c]]
  /\ UNCHANGED <<tokHist, cbHist, revLog, hist, mem>>

\* One client, one caller of Dump and one caller of Expire with its cleanup; the
\* history kept is what followed the sweeps that emptied a record
ReclaimLeases == {<<>>, <<Le>>, <<Le, Lv>>}
NextReclaim ==
  \/ \E t \in {"c1"}, cid \in {"A"} : Lookups < StoreLookups /\ LookupFetch(t, cid) /\ SweptKept
  \/ \E t \in {"c1"} : LookupRead(t) /\ SweptKept
  \/ \E t \in {"c1"}, cid \in {"A"}, newLeases \in ReclaimLeases, token \in 0 .. ntok :
       UpdateCheck(t, cid, newLeases, token) /\ SweptKept
  \/ \E t \in {"c1"} : UpdateOwner(t) /\ SweptKept
  \/ \E t \in {"c1"} : UpdateFetch(t) /\ SweptKept
  \/ \E t \in {"c1"} : UpdatePresent(t) /\ SweptKept
  \/ \E t \in {"c1"} : UpdateCreate(t) /\ SweptKept
  \/ \E e \in Expirers, workAmount \in 1 .. MaxWork, now \in 1 .. MaxNow :
       ExpireStart(e, workAmount, now) /\ SweptKept
  \/ \E e \in Expirers : ExpireRecord(e) /\ SweptKept
  \/ \E e \in Expirers : ExpireRangeEnd(e) /\ SweptKept
  \/ \E e \in Expirers : ExpireRUnlock(e) /\ SweptKept
  \/ \E e \in Expirers : ExpireReturn(e) /\ SweptKept
  \/ \E e \in Expirers : cleanupLock(e) /\ SweptKept
  \/ \E e \in Expirers : cleanupCandidate(e) /\ SweptKept
  \/ \E e \in Expirers : cleanupUnlock(e) /\ SweptKept
  \/ \E d \in Dumpers : DumpStart(d) /\ SweptKept
  \/ \E d \in Dumpers : DumpRecord(d) /\ SweptKept
  \/ \E d \in Dumpers : DumpReturn(d) /\ SweptKept

SpecReclaim == Init /\ [][NextReclaim]_vars

\* One client committing lists in which the expired leases sit first, last, on
\* both sides of a lease that is still good, or alone, and the Expire sweeps with
\* their cleanup; the history kept is the log of the revisions written
SweepLeases == {<<Le>>, <<Le, Lv>>, <<Lv, Le>>, <<Le, Lv, Ld>>}
NextSweep ==
  \/ \E t \in {"c1"}, cid \in {"A"} : Lookups < MaxTokens /\ LookupFetch(t, cid) /\ StoreHistory
  \/ \E t \in {"c1"} : LookupRead(t) /\ StoreHistory
  \/ \E t \in {"c1"}, cid \in {"A"}, newLeases \in SweepLeases, token \in 0 .. ntok :
       UpdateCheck(t, cid, newLeases, token) /\ StoreHistory
  \/ \E t \in {"c1"} : UpdateOwner(t) /\ StoreHistory
  \/ \E t \in {"c1"} : UpdateFetch(t) /\ StoreHistory
  \/ \E t \in {"c1"} : UpdatePresent(t) /\ StoreHistory
  \/ \E t \in {"c1"} : UpdateCreate(t) /\ StoreHistory
  \/ \E e \in Expirers, workAmount \in 1 .. MaxWork, now \in 1 .. MaxNow :
       ExpireStart(e, workAmount, now) /\ StoreHistory
  \/ \E e \in Expirers : ExpireRecord(e) /\ StoreHistory
  \/ \E e \in Expirers : ExpireRangeEnd(e) /\ StoreHistory
  \/ \E e \in Expirers : ExpireRUnlock(e) /\ StoreHistory
  \/ \E e \in Expirers : ExpireReturn(e) /\ StoreHistory
  \/ \E e \in Expirers : cleanupLock(e) /\ StoreHistory
  \/ \E e \in Expirers : cleanupCandidate(e) /\ StoreHistory
  \/ \E e \in Expirers : cleanupUnlock(e) /\ StoreHistory

SpecSweep == Init /\ [][NextSweep]_vars

\* the step is a sweep visit of the record of cid in which no lease is before the
\* cutoff: cleanedLeases stays nil (lines 228-258)
FastPath(e, cid) ==
  Sweeps(e, cid) /\ Reaped(heap[records[cid]].leases, ex[e].cutoff) = <<>>

\* swept after the step: a visit on the fast path is noted and a visit that removes
\* leases forgotten; a Lookup of the ClientID that returns after the visit is
\* noted; a commit after the visit with no such Lookup (its token was minted
\* before the visit) is noted, any other commit forgets the visit
FastKept ==
  /\ swept' = [c \in Cids |->
                 IF \E e \in Expirers : FastPath(e, c)
                 THEN [state |-> "untouched", looked |-> FALSE]
                 ELSE IF \E e \in Expirers : Reaps(e, c) THEN NotSwept
                 ELSE IF \E t \in Clients : Commits(t) /\ cl[t].cid = c
                 THEN IF swept[c].state = "untouched" /\ ~swept[c].looked
                      THEN [state |-> "committed", looked |-> FALSE]
                      ELSE NotSwept
                 ELSE IF \E t \in Clients : ev'.who = t /\ ev'.op = "Lookup" /\ cl[t].cid = c
                 THEN [swept[c] EXCEPT !.looked = TRUE]
                 ELSE swept[c]]
  /\ UNCHANGED <<tokHist, cbHist, revLog, hist, mem>>

\* One client committing lists that a sweep leaves alone, empties, or cuts down
\* with an expireAction to run, and the Expire sweeps with their cleanup and the
\* goroutines of the expireActions; the history kept is that of the visits that
\* took the fast path
FastLeases == {<<Le>>, <<Lv>>, <<La, Lc>>}
NextFast ==
  \/ \E t \in {"c1"}, cid \in {"A"} : Alive /\ Lookups < StoreLookups /\ LookupFetch(t, cid) /\ FastKept
  \/ \E t \in {"c1"} : Alive /\ LookupRead(t) /\ FastKept
  \/ \E t \in {"c1"}, cid \in {"A"}, newLeases \in FastLeases, token \in 0 .. ntok :
       Alive /\ UpdateCheck(t, cid, newLeases, token) /\ FastKept
  \/ \E t \in {"c1"} : Alive /\ UpdateOwner(t) /\ FastKept
  \/ \E t \in {"c1"} : Alive /\ UpdateFetch(t) /\ FastKept
  \/ \E t \in {"c1"} : Alive /\ UpdatePresent(t) /\ FastKept
  \/ \E t \in {"c1"} : Alive /\ UpdateCreate(t) /\ FastKept
  \/ \E e \in Expirers, workAmount \in 1 .. MaxWork, now \in 1 .. MaxNow :
       Alive /\ ExpireStart(e, workAmount, now) /\ FastKept
  \/ \E e \in Expirers : Alive /\ ExpireRecord(e) /\ FastKept
  \/ \E e \in Expirers : Alive /\ ExpireRangeEnd(e) /\ FastKept
  \/ \E e \in Expirers : Alive /\ ExpireRUnlock(e) /\ FastKept
  \/ \E e \in Expirers : Alive /\ ExpireReturn(e) /\ FastKept
  \/ \E e \in Expirers : Alive /\ cleanupLock(e) /\ FastKept
  \/ \E e \in Expirers : Alive /\ cleanupCandidate(e) /\ FastKept
  \/ \E e \in Expirers : Alive /\ cleanupUnlock(e) /\ FastKept
  \/ \E e \in Expirers : \E k \in 1 .. Len(tasks[e]) : Alive /\ CallbackLoad(e, k) /\ FastKept
  \/ \E e \in Expirers : \E k \in 1 .. Len(tasks[e]) : Alive /\ CallbackInvoke(e, k) /\ FastKept
  \/ \E e \in Expirers : \E k \in 1 .. Len(tasks[e]) : Alive /\ CallbackDone(e, k) /\ FastKept

SpecFast == Init /\ [][NextFast]_vars

\* the step is the start of a sweep by some Expire call
Starts == \E e \in Expirers : ex[e].pc = "idle" /\ ex'[e].pc = "range"
\* a sweep is between its RLock and its RUnlock
Sweeping == \E e \in Expirers : ex[e].pc \in {"range", "runlock"}

\* swept after the step, for the sweep in progress: the start of a sweep forgets
\* the one before; the visit of the record of a ClientID is noted, and so is an
\* Update that commits for the ClientID between the RLock and the RUnlock
BudgetKept ==
  /\ swept' = [c \in Cids |->
                 IF Starts THEN NotSwept
                 ELSE IF \E e \in Expirers : Sweeps(e, c)
                 THEN [swept[c] EXCEPT !.state = "visited"]
                 ELSE IF Sweeping /\ \E t \in Clients : Commits(t) /\ cl[t].cid = c
                 THEN [swept[c] EXCEPT !.looked = TRUE]
                 ELSE swept[c]]
  /\ UNCHANGED <<tokHist, cbHist, revLog, hist, mem>>

\* One client committing lists with no lease, or with one or two expired leases, for two
\* ClientIDs, and Expire calls with a workAmount from 0 on, with their cleanup;
\* the history kept is that of the sweep in progress
BudgetLeases == {<<>>, <<Le, Ld>>, <<Lv, Le>>}
NextBudget ==
  \/ \E t \in {"c1"}, cid \in Cids : Lookups < StoreLookups /\ LookupFetch(t, cid) /\ BudgetKept
  \/ \E t \in {"c1"} : LookupRead(t) /\ BudgetKept
  \/ \E t \in {"c1"}, cid \in Cids, newLeases \in BudgetLeases, token \in 1 .. ntok :
       UpdateCheck(t, cid, newLeases, token) /\ BudgetKept
  \/ \E t \in {"c1"} : UpdateOwner(t) /\ BudgetKept
  \/ \E t \in {"c1"} : UpdateFetch(t) /\ BudgetKept
  \/ \E t \in {"c1"} : UpdatePresent(t) /\ BudgetKept
  \/ \E t \in {"c1"} : UpdateCreate(t) /\ BudgetKept
  \/ \E e \in Expirers, workAmount \in 0 .. MaxWork, now \in 1 .. MaxNow :
       ExpireStart(e, workAmount, now) /\ BudgetKept
  \/ \E e \in Expirers : ExpireRecord(e) /\ BudgetKept
  \/ \E e \in Expirers : ExpireRangeEnd(e) /\ BudgetKept
  \/ \E e \in Expirers : ExpireRUnlock(e) /\ BudgetKept
  \/ \E e \in Expirers : ExpireReturn(e) /\ BudgetKept
  \/ \E e \in Expirers : cleanupLock(e) /\ BudgetKept
  \/ \E e \in Expirers : cleanupCandidate(e) /\ BudgetKept
  \/ \E e \in Expirers : cleanupUnlock(e) /\ BudgetKept

SpecBudget == Init /\ [][NextBudget]_vars

(* getRevision is two atomic operations apart when the counter wraps. The actions
   above take a call of it as one step; the ones below take the commit of Update
   on a present record with the steps of getRevision (lines 98-104) one by one,
   val being its local variable *)

\* prev.Lock(); the compare of the revisions; with an empty newLeases the reset
\* and the return; else prev.leases = newLeases and the call of getRevision
UpdatePresentLock(t) ==
  /\ cl[t].pc = "UpdatePresent"
  /\ LET prev == cl[t].prev
     IN /\ heap[prev].lock = NoHolder
        /\ IF heap[prev].revision # cl[t].tokVal.revision
           THEN /\ UpdateFail(t, ErrConcurrentUpdate)
                /\ UNCHANGED heap
           ELSE IF Len(cl[t].newLeases) > 0
           THEN /\ heap' = [heap EXCEPT ![prev].lock = t, ![prev].leases = cl[t].newLeases]
                /\ cl' = [cl EXCEPT ![t].pc = "getRevision"]
                /\ ev' = NoEvent
                /\ UNCHANGED tokens
           ELSE /\ heap' = [heap EXCEPT ![prev] = reset(@)]
                /\ UpdateSucceed(t)
  /\ UNCHANGED <<records, currentRev, lockVars, ntok, expVars, dm, panicked>>

\* val = atomic.AddUint64(&lstore.currentRev, 1), at line 99 or at line 101
getRevisionAdd(t) ==
  /\ cl[t].pc = "getRevision"
  /\ currentRev' = (currentRev + 1) % RevModulus
  /\ cl' = [cl EXCEPT ![t].pc = "getRevisionTest", ![t].val = currentRev']
  /\ ev' = NoEvent
  /\ UNCHANGED <<records, heap, lockVars, tokVars, expVars, dm, panicked>>

\* a getRevision that returns val without the test
getRevisionTestNone(t) ==
  /\ cl[t].pc = "getRevisionTest"
  /\ heap' = [heap EXCEPT ![cl[t].prev].revision = cl[t].val,
                          ![cl[t].prev].lock = NoHolder]
  /\ UpdateSucceed(t)
  /\ UNCHANGED <<records, currentRev, lockVars, ntok, expVars, dm, panicked>>

\* `for val == 0`: back to the add, or return val; then prev.revision = val,
\* token.Invalidate(), the deferred prev.Unlock() and the return of Update
getRevisionTest(t) ==
  /\ cl[t].pc = "getRevisionTest"
  /\ IF cl[t].val = 0
     THEN /\ cl' = [cl EXCEPT ![t].pc = "getRevision"]
          /\ ev' = NoEvent
          /\ UNCHANGED <<heap, tokens>>
     ELSE /\ heap' = [heap EXCEPT ![cl[t].prev].revision = cl[t].val,
                                  ![cl[t].prev].lock = NoHolder]
          /\ UpdateSucceed(t)
  /\ UNCHANGED <<records, currentRev, lockVars, ntok, expVars, dm, panicked>>

\* the values of currentRev from which the counter wraps within two calls
WrapStarts == {RevModulus - 2, RevModulus - 1}

\* A new store; or a store that has been in use until its counter is about to
\* wrap, with records for two ClientIDs that hold the last two revisions taken
\* and no token left that is valid
InitRevision ==
  /\ \/ /\ records = [c \in Cids |-> NoRec]
        /\ heap = [r \in RecIds |-> ZeroStorage]
        /\ currentRev = 1
     \/ \E s \in WrapStarts :
          /\ records = [c \in Cids |-> IF c = "A" THEN 1 ELSE 2]
          /\ heap = [r \in RecIds |->
                       IF r = 1 THEN [ZeroStorage EXCEPT !.revision = s, !.leases = <<Lv>>]
                       ELSE IF r = 2
                       THEN [ZeroStorage EXCEPT !.revision = s - 1, !.leases = <<Lv>>]
                       ELSE ZeroStorage]
          /\ currentRev = s
  /\ keyR = {}
  /\ keyW = NoHolder
  /\ Quiet

\* Two clients, each with its ClientID, whose Updates call getRevision at the
\* same time; no history is kept
RevisionLeases == {<<>>, <<Lv>>}
NoHistory == UNCHANGED <<tokHist, cbHist, revLog, hist, mem, swept>>
NextRevision ==
  \/ \E t \in Clients : \E cid \in OwnCid(t) :
       Lookups < MaxTokens /\ LookupFetch(t, cid) /\ NoHistory
  \/ \E t \in Clients : LookupRead(t) /\ NoHistory
  \/ \E t \in Clients, newLeases \in RevisionLeases, token \in 1 .. ntok :
       \E cid \in OwnCid(t) : UpdateCheck(t, cid, newLeases, token) /\ NoHistory
  \/ \E t \in Clients : UpdateOwner(t) /\ NoHistory
  \/ \E t \in Clients : UpdateFetch(t) /\ NoHistory
  \/ \E t \in Clients : UpdatePresentLock(t) /\ NoHistory
  \/ \E t \in Clients : getRevisionAdd(t) /\ NoHistory
  \/ \E t \in Clients : getRevisionTest(t) /\ NoHistory
  \/ \E t \in Clients : UpdateCreate(t) /\ NoHistory

SpecRevision == InitRevision /\ [][NextRevision]_vars

\* the history of a token with the leases that the Lookup which minted it returned
Minted(leases) ==
  [commits |-> 0, stale |-> FALSE, firstUse |-> "none", firstUser |-> "none",
   returned |-> leases]

\* tokHist and mem after a step of the store. tokHist: a Lookup that returns notes
\* what it returned with the token. mem: as under the callers that write into
\* their slices, and a sweep that removes leases from a record gives it a slice of
\* its own (v.leases = cleanedLeases) or none (v.reset())
SeenKept ==
  /\ tokHist' = [k \in TokIds |->
                   IF ev'.op = "Lookup" /\ ev'.token = k THEN Minted(ev'.leases)
                   ELSE tokHist[k]]
  /\ mem' = [t \in Clients |->
               IF LookupReturns(t) THEN [leases |-> ev'.leases, shared |-> NoRec]
               ELSE IF Commits(t)
               THEN [mem[t] EXCEPT !.shared = IF Len(cl[t].newLeases) > 0
                                             THEN records'[cl[t].cid] ELSE NoRec]
               ELSE IF \E u \in Clients : Commits(u) /\ records'[cl[u].cid] = mem[t].shared
               THEN [mem[t] EXCEPT !.shared = NoRec]
               ELSE IF \E e \in Expirers, c \in Cids : Reaps(e, c) /\ records[c] = mem[t].shared
               THEN [mem[t] EXCEPT !.shared = NoRec]
               ELSE mem[t]]
  /\ UNCHANGED <<cbHist, revLog, hist, swept>>

\* Two clients that look up one ClientID, write into the slices they hold and
\* commit them, and the Expire sweeps with their cleanup; the history kept is what
\* each Lookup returned with its token, and which record shares a caller's slice
NextSeen ==
  \/ \E t \in Clients, cid \in {"A"} : Lookups < StoreLookups /\ LookupFetch(t, cid) /\ SeenKept
  \/ \E t \in Clients : LookupRead(t) /\ SeenKept
  \/ \E t \in Clients, cid \in {"A"}, token \in 1 .. ntok :
       UpdateCheck(t, cid, mem[t].leases, token) /\ SeenKept
  \/ \E t \in Clients : UpdateOwner(t) /\ SeenKept
  \/ \E t \in Clients : UpdateFetch(t) /\ SeenKept
  \/ \E t \in Clients : UpdatePresent(t) /\ SeenKept
  \/ \E t \in Clients : UpdateCreate(t) /\ SeenKept
  \/ \E e \in Expirers, workAmount \in 1 .. MaxWork, now \in 1 .. MaxNow :
       ExpireStart(e, workAmount, now) /\ SeenKept
  \/ \E e \in Expirers : ExpireRecord(e) /\ SeenKept
  \/ \E e \in Expirers : ExpireRangeEnd(e) /\ SeenKept
  \/ \E e \in Expirers : ExpireRUnlock(e) /\ SeenKept
  \/ \E e \in Expirers : ExpireReturn(e) /\ SeenKept
  \/ \E e \in Expirers : cleanupLock(e) /\ SeenKept
  \/ \E e \in Expirers : cleanupCandidate(e) /\ SeenKept
  \/ \E e \in Expirers : cleanupUnlock(e) /\ SeenKept
  \/ \E t \in Clients : \E i \in 1 .. Len(mem[t].leases), expire \in WrittenExpires :
       WriteExpire(t, i, expire)
  \/ \E t \in Clients : \E i \in 1 .. Len(mem[t].leases), elements \in WrittenElements :
       WriteElements(t, i, elements)

SpecSeen == InitAlias /\ [][NextSeen]_vars

(* ------------------------------ properties ----------------------------- *)

\* C1 (P5, restart safety): once the two Updates of the first round have returned,
\* exactly one has returned success and the other has returned CONCURRENT_UPDATE
\* with its token no longer valid; and the Update of a restarted cycle returns
\* success
RestartSafety ==
  /\ (\A t \in Clients : Calls(t) >= 2) =>
       \E t \in Clients :
         /\ hist[t][2].ret = OK
         /\ \A u \in Clients \ {t} :
              hist[u][2].ret = ErrConcurrentUpdate /\ ~Valid(hist[u][1].token)
  /\ \A t \in Clients : Calls(t) >= 4 => hist[t][4].ret = OK

\* C2 (P4): at most one Update call made with a token returns success
OneCommitPerToken == \A k \in TokIds : tokHist[k].commits <= 1

\* C3: a token that went stale before its first use (another token committed for
\* its ClientID, or a sweep reaped a lease of the record) is rejected with
\* CONCURRENT_UPDATE by the first Update it is passed to
StaleTokenRejected == \A k \in TokIds : tokHist[k].firstUse # "accepted"

\* the ClientID has a record in the map
Stored(c) == records[c] # NoRec
\* the revisions written so far for all ClientIDs, as (ClientID, position) pairs
Written == {<<c, i>> \in Cids \X (1 .. 2 * RevModulus) : i <= Len(revLog[c])}

\* C4 (I1): every record of the map whose lock is free has revision 0 if and only
\* if its lease list is empty
RevisionZeroIffEmpty ==
  \A c \in Cids :
    Stored(c) /\ heap[records[c]].lock = NoHolder =>
      (heap[records[c]].revision = 0 <=> heap[records[c]].leases = <<>>)

\* C5: no non-zero revision is written twice, whatever the records it is written
\* to, and no two records of the map hold the same non-zero revision
UniqueRevisions ==
  /\ \A w1, w2 \in Written : w1 # w2 => revLog[w1[1]][w1[2]] # revLog[w2[1]][w2[2]]
  /\ \A c1, c2 \in Cids :
       (c1 # c2 /\ Stored(c1) /\ Stored(c2) /\ heap[records[c1]].revision # 0)
         => heap[records[c1]].revision # heap[records[c2]].revision

\* two records hold non-zero revisions and a third revision has been written
TwoRecordsRevised ==
  /\ \A c \in Cids : Stored(c) /\ heap[records[c]].revision # 0
  /\ Cardinality(Written) >= 3

\* C6: the non-zero revisions written to the record of a ClientID strictly
\* increase, and so the non-zero revisions of the tokens minted for it, in the
\* order of the Lookups, never decrease
RevisionMonotonic ==
  /\ \A c \in Cids : \A i, j \in 1 .. Len(revLog[c]) : i < j => revLog[c][i] < revLog[c][j]
  /\ \A k1, k2 \in 1 .. ntok :
       (/\ k1 < k2
        /\ tokens[k1].Value.cid = tokens[k2].Value.cid
        /\ tokens[k1].Value.revision # 0
        /\ tokens[k2].Value.revision # 0)
         => tokens[k1].Value.revision <= tokens[k2].Value.revision

\* Updates and sweeps have written four revisions to one record, and two Lookups
\* have captured different non-zero revisions of it
RevisedFourTimes ==
  \E c \in Cids :
    /\ Len(revLog[c]) >= 4
    /\ \E k1, k2 \in 1 .. ntok :
         /\ tokens[k1].Value.cid = c /\ tokens[k2].Value.cid = c
         /\ tokens[k1].Value.revision # 0
         /\ tokens[k1].Value.revision < tokens[k2].Value.revision

\* C8: a map entry goes away only in a step of cleanup, which holds keyLock for
\* writing and ends holding the lock of the record, and only if the record has
\* revision 0 (and so no leases) in that step; no entry is ever replaced
CleanupSafety ==
  [][\A c \in Cids :
       (Stored(c) /\ records'[c] # records[c]) =>
         /\ records'[c] = NoRec
         /\ \E e \in Expirers :
              /\ kl[e].pc = "loop"
              /\ keyW = cleanupOf(e)
              /\ heap[records[c]].lock = NoHolder
              /\ heap'[records[c]].lock = cleanupOf(e)
         /\ heap[records[c]].revision = 0
         /\ heap[records[c]].leases = <<>>]_vars

\* cleanup has gone through its candidates and has left one in the map: an Update
\* gave it a non-zero revision after the sweep
ResurrectedKept ==
  \E e \in Expirers :
    /\ kl[e].pc = "loop"
    /\ kl[e].idx > Len(kl[e].candidates)
    /\ \E i \in 1 .. Len(kl[e].candidates) :
         /\ Stored(kl[e].candidates[i])
         /\ heap[records[kl[e].candidates[i]]].revision # 0

\* C7: every call that has started returns: a client inside Lookup or Update, a
\* caller inside Dump or Expire, and a started cleanup each get back to rest
CallsReturn ==
  /\ \A t \in Clients : (cl[t].pc # "idle") ~> (cl[t].pc = "idle")
  /\ \A e \in Expirers : (ex[e].pc # "idle") ~> (ex[e].pc = "idle")
  /\ \A e \in Expirers : (kl[e].pc # "idle") ~> (kl[e].pc = "idle")
  /\ \A d \in Dumpers : (dm[d].pc # "idle") ~> (dm[d].pc = "idle")

\* C9 (P6): when an Expire call returns, every lease reaped so far that has an
\* expireAction has had that expireAction called once with its own elements and
\* expire, and no other call of an expireAction was made
CallbackOnce ==
  ev.op = "Expire" => (cbHist.owed = EmptyBag /\ cbHist.stray = EmptyBag)

\* C10 (P7): when an Expire call returns, no goroutine it spawned for an
\* expireAction is still to run or running
ExpireBeforeReturn ==
  \A e \in Expirers : (ev.op = "Expire" /\ ev.who = e) => tasks[e] = <<>>

\* an Expire call that reaped two leases returns after the expireActions were
\* called, while the cleanup goroutine it spawned has not started its work
ReturnedBeforeCleanup ==
  \E e \in Expirers :
    /\ ev.op = "Expire" /\ ev.who = e /\ ev.cleaned = 2
    /\ cbHist.calls >= 1
    /\ kl[e].pc = "start"

\* the step belongs to an Update call of t: it returns from one, or moves t to a
\* position inside one
UpdateStep(t) ==
  \/ ev'.who = t /\ ev'.op = "Update"
  \/ cl'[t] # cl[t] /\ cl'[t].pc \in InUpdate \cup {"UpdateOwner"}
\* the step leaves the keys of the map, the (revision, leases) of every record and
\* currentRev as they are
StoreSame ==
  /\ records' = records
  /\ currentRev' = currentRev
  /\ \A r \in RecIds : /\ heap'[r].revision = heap[r].revision
                       /\ heap'[r].leases = heap[r].leases

\* C11: the only step of an Update call that changes the map, a record or
\* currentRev is the one that returns success; a call that returns an error has
\* changed none of them (Update reaches no other store than its receiver)
StoreUnchangedOnError ==
  [][\A t \in Clients :
       (UpdateStep(t) /\ ~(ev'.who = t /\ ev'.op = "Update" /\ ev'.ret = OK))
         => StoreSame]_vars

\* an Update has just returned CONCURRENT_UPDATE on a record that holds leases,
\* and the last Update of the other client was refused for a foreign token
ErrorWithLeasesStored ==
  \E t, u \in Clients :
    /\ ev.who = t /\ ev.op = "Update" /\ ev.ret = ErrConcurrentUpdate
    /\ Stored("A") /\ heap[records["A"]].leases # <<>>
    /\ u # t /\ hist[u] # <<>> /\ hist[u][1].ret = ErrOtherPlugin

\* C12: Update checks, in this order, that the token is valid (else
\* TOKEN_ALREADY_INVALID), that this store owns it (else the foreign-token error),
\* that its payload is a tokenValue (else the corrupt-token error) and that its cid
\* is the cid argument (else the cid-mismatch error); it returns the error of the
\* first check that fails, and has not fetched a record by then
PrecheckOrder ==
  [][\A t \in Clients :
       /\ (cl[t].pc = "idle" /\ UpdateStep(t)) =>
            LET token == hist'[t][1].token
            IN IF token = NilTok \/ tokens[token].owner = NoOwner
               THEN ev' = UpdateReturn(t, ErrAlreadyInvalid)
               ELSE ev' = NoEvent /\ cl'[t].pc = "UpdateOwner" /\ cl'[t].prev = NoRec
       /\ (cl[t].pc = "UpdateOwner" /\ cl'[t] # cl[t]) =>
            LET token == cl[t].token
            IN IF tokens[token].owner # Self
               THEN ev' = UpdateReturn(t, ErrOtherPlugin)
               ELSE IF ~IsTokenValue(tokens[token].Value)
               THEN ev'.who = t /\ ev'.op = "Update" /\ ev'.ret.msg = ErrCorrupted.msg
               ELSE IF tokens[token].Value.cid # cl[t].cid
               THEN ev' = UpdateReturn(t, ErrCidMismatch)
               ELSE ev' = NoEvent /\ cl'[t].pc = "Update" /\ cl'[t].prev = NoRec]_vars

\* the last Update of one client, with the foreign token and a cid that is not the
\* token's, got the foreign-token error, and the last Update of the other, with a
\* token minted here and invalid by then, got TOKEN_ALREADY_INVALID
ForeignAndInvalidRefused ==
  \E t, u \in Clients :
    /\ hist[t] # <<>> /\ hist[u] # <<>>
    /\ hist[t][1].token = ForeignTok /\ hist[t][1].cid = "B"
    /\ hist[t][1].ret = ErrOtherPlugin
    /\ hist[u][1].token \in 1 .. ntok /\ hist[u][1].ret = ErrAlreadyInvalid

\* C13: when an Update call returns, the token it was passed is invalid if the call
\* returned success or an error of the token-error family, and is valid and as it
\* was, so that a correct Update can still commit it, if the call returned the
\* foreign-token or the cid-mismatch error
TokenAfterUpdate ==
  [][\A t \in Clients :
       (ev'.who = t /\ ev'.op = "Update") =>
         LET token == hist'[t][1].token
         IN IF ev'.ret = OK \/ ev'.ret.tokenErr
            THEN token = NilTok \/ tokens'[token].owner = NoOwner
            ELSE /\ token # NilTok
                 /\ tokens'[token].owner # NoOwner
                 /\ tokens'[token] = tokens[token]]_vars

\* the step is a store by client t into the leases it holds
CallerWrites(t) == mem'[t].leases # mem[t].leases /\ ev' = NoEvent

\* C14 (P3, I4): a store by a caller into a lease sequence it got from Lookup, be
\* it into the list or into the elements of a lease, before or after the sequence
\* was passed to Update, changes no record of the store, and so nothing that a
\* later Lookup or Dump returns
SnapshotIsolation ==
  [][\A t \in Clients : CallerWrites(t) => StoreSame]_vars

\* C15: after a sweep has reaped the last lease of the record of a ClientID, and as
\* long as no Update has committed for it, a Lookup of the ClientID returns no
\* lease and a token with revision 0; and once the cleanup spawned by that Expire
\* call has ended, the map has no entry for the ClientID and a Dump returns no
\* such key
EmptiedReclaimed ==
  \A c \in Cids :
    /\ (swept[c].state # "no" /\ ev.op = "Lookup" /\ tokens[ev.token].Value.cid = c)
         => (ev.leases = <<>> /\ tokens[ev.token].Value.revision = 0)
    /\ swept[c].state = "reclaimed"
         => (~Stored(c) /\ (ev.op = "Dump" => ev.dump[c].isNil))

\* a sweep emptied the record of "A", a Lookup of "A" returned after it, the
\* cleanup ended, and a Dump has just returned
DumpAfterReclaim ==
  /\ swept["A"].state = "reclaimed" /\ swept["A"].looked
  /\ ev.op = "Dump"

\* the leases of a list whose expire is at or after the cutoff, in their order
StillGood(leases, cutoff) == SelectSeq(leases, LAMBDA l : l.Expire >= cutoff)
\* the revisions written so far, for all ClientIDs
RevisionsWritten == {revLog[w[1]][w[2]] : w \in Written}

Holders == Clients \cup Expirers \cup Dumpers \cup {cleanupOf(e) : e \in Expirers}
\* goroutine x holds the lock of a record
HoldsRecord(x) == \E r \in RecIds : heap[r].lock = x

CallbackStep(e) ==
  \/ tasks'[e] # tasks[e] /\ ex'[e].todo = ex[e].todo
  \/ panicked' # panicked

\* C18: the goroutine that calls an expireAction takes and holds no lock of the
\* store, and an Expire call that waits for its callbacks holds neither keyLock
\* nor the lock of a record, so what a callback calls on the store never waits
\* for a lock of the Expire that waits for it
CallbacksOffLocks ==
  [][/\ \A e \in Expirers :
          CallbackStep(e) => (keyR' = keyR /\ keyW' = keyW /\ heap' = heap)
     /\ \A e \in Expirers :
          ex'[e].pc = "wait" => (e \notin keyR' /\ \A r \in RecIds : heap'[r].lock # e)]_vars

\* an expireAction is running while the Expire that spawned it waits for it, and
\* the cleanup goroutine has taken keyLock for writing in the meantime
CallbackRunsWhileWaiting ==
  \E e \in Expirers :
    /\ ex[e].pc = "wait"
    /\ \E k \in 1 .. Len(tasks[e]) : tasks[e][k].pc = "running"
    /\ keyW = cleanupOf(e)

\* record r was deleted from the map by cleanup, which left its lock held
Deleted(r) == heap[r].lock # NoHolder /\ \A c \in Cids : records[c] # r

\* C19: once cleanup has deleted a record from the map and left it locked, no
\* goroutine goes on to lock that record: no Lookup or Update that fetched the
\* pointer to it under the read lock is still to lock it
DeletedUnreachable ==
  \A t \in Clients :
    (cl[t].pc \in {"Lookup", "UpdatePresent"} /\ cl[t].prev # NoRec) => ~Deleted(cl[t].prev)

\* the token's payload names the ClientID and the revision the record of it has
Matches(k, c) ==
  /\ tokens[k].owner # NoOwner
  /\ tokens[k].Value = [cid |-> c, revision |-> heap[records[c]].revision]

\* C20: the visit by a sweep of a record in which no lease has expire before the
\* cutoff, whatever its revision, leaves the record's leases and revision as they
\* were, takes no new revision, spawns no callback, and counts nothing in cleaned;
\* every valid token that matched the record before the visit matches it after
FastPathUntouched ==
  [][\A e \in Expirers, c \in Cids :
       FastPath(e, c) =>
         /\ records'[c] = records[c]
         /\ heap'[records[c]].leases = heap[records[c]].leases
         /\ heap'[records[c]].revision = heap[records[c]].revision
         /\ currentRev' = currentRev
         /\ tasks'[e] = tasks[e]
         /\ ex'[e].callbacks = ex[e].callbacks
         /\ ex'[e].cleaned = ex[e].cleaned
         /\ \A k \in 1 .. ntok : Matches(k, c) => Matches(k, c)']_vars

\* a sweep left the record of "A", which has leases and a non-zero revision, on
\* the fast path, and then an Update with a token minted before that visit has
\* just returned nil
CommitAfterFastPath ==
  /\ swept["A"].state = "committed"
  /\ ev.op = "Update" /\ ev.ret = OK
  /\ Stored("A") /\ heap[records["A"]].revision # 0
  /\ \E e \in Expirers : ex[e].pc \in {"range", "runlock"} /\ ex[e].cleaned = 0
                           /\ ex[e].cleanupCandidates = <<>>

\* cleaned counts the leases the call removes from the store: it starts at 0,
\* a visit adds the number of leases the record loses, no other step changes it,
\* and the call returns it
CountsRemoved(e) ==
  /\ (ex[e].pc = "idle" /\ ex'[e].pc = "range") => ex'[e].cleaned = 0
  /\ \A c \in Cids :
       Sweeps(e, c) => ex'[e].cleaned - ex[e].cleaned =
                         Len(heap[records[c]].leases) - Len(heap'[records[c]].leases)
  /\ (ex[e].pc # "idle" /\ ex'[e].pc # "idle" /\ ~\E c \in Cids : Sweeps(e, c))
       => ex'[e].cleaned = ex[e].cleaned
  /\ (ev'.who = e /\ ev'.op = "Expire") => ev'.cleaned = ex[e].cleaned

\* the sweep that ended with cleaned < workAmount visited the record of every
\* ClientID in the map, and every record that no Update committed to during the
\* sweep has no lease before the cutoff
Exhaustive ==
  \A e \in Expirers :
    (ex[e].pc = "runlock" /\ ex[e].cleaned < ex[e].workAmount) =>
      /\ ex[e].todo = {}
      /\ \A c \in Cids :
           Stored(c) =>
             /\ swept[c].state = "visited"
             /\ ~swept[c].looked => Reaped(heap[records[c]].leases, ex[e].cutoff) = <<>>

\* C21 as stated: Expire returns the number of leases it removed; after the visit
\* of any record it goes on exactly when cleaned < workAmount; and a sweep that
\* ends with cleaned < workAmount visited every record, so that the records no
\* Update committed to meanwhile have no lease before the cutoff
BudgetAfterAnyRecord ==
  /\ []Exhaustive
  /\ [][\A e \in Expirers :
          /\ CountsRemoved(e)
          /\ \A c \in Cids :
               Sweeps(e, c) =>
                 (ex'[e].pc = "runlock" <=> ex'[e].cleaned >= ex[e].workAmount)]_vars

\* C21 amended: as above, but the test of cleaned >= workAmount comes only after
\* the visit of a record with a non-zero revision; after a record with revision 0
\* the sweep goes on whatever cleaned is (which shows for workAmount <= 0 only)
BudgetAfterWalkedRecord ==
  /\ []Exhaustive
  /\ [][\A e \in Expirers :
          /\ CountsRemoved(e)
          /\ \A c \in Cids :
               Sweeps(e, c) =>
                 IF heap[records[c]].revision # 0
                 THEN ex'[e].pc = "runlock" <=> ex'[e].cleaned >= ex[e].workAmount
                 ELSE ex'[e].pc = "range" /\ ex'[e].cleaned = ex[e].cleaned]_vars

\* a sweep with workAmount 1 has removed the two leases of the one record it
\* visited and stopped with another record of the map left to visit
BudgetExceededByLastRecord ==
  \E e \in Expirers :
    /\ ex[e].pc = "runlock" /\ ex[e].workAmount = 1 /\ ex[e].cleaned = 2
    /\ ex[e].todo # {}
    /\ \E c \in Cids : swept[c].state = "visited"

\* no token was minted and the map is empty: the store is as New returned it
Untouched == ntok = 0 /\ \A c \in Cids : ~Stored(c)
\* the step is the return of the getRevision call of t
Returns(t) == cl[t].pc = "getRevisionTest" /\ cl'[t].pc = "idle"

\* C22: a new store has currentRev = 1; every call of getRevision, whatever the
\* other callers do between its atomic adds and also when the counter wraps,
\* returns a value that is not 0, which is the revision the caller commits; and
\* no record with leases whose lock is free has revision 0
RevisionNeverZero ==
  /\ [](Untouched => currentRev = 1)
  /\ [](\A c \in Cids :
          (Stored(c) /\ heap[records[c]].lock = NoHolder /\ heap[records[c]].leases # <<>>)
            => heap[records[c]].revision # 0)
  /\ [][\A t \in Clients :
          Returns(t) => /\ cl[t].val # 0
                        /\ heap'[cl[t].prev].revision = cl[t].val]_vars

\* the counter has wrapped while two callers were in getRevision: the one whose
\* add gave 0 added again after the other had taken 1, both have committed, and
\* the records have the revisions 2 and 1
WrappedUnderContention ==
  /\ currentRev = 2
  /\ Stored("A") /\ Stored("B")
  /\ {heap[records["A"]].revision, heap[records["B"]].revision} = {1, 2}
  /\ \A t \in Clients : cl[t].pc = "idle"
  /\ ev.op = "Update" /\ ev.ret = OK

\* the lease list held for a ClientID: empty when the map has no record for it
HeldFor(c) == IF Stored(c) THEN heap[records[c]].leases ELSE <<>>

\* C23: whenever an Update call commits, the lease list held for its ClientID
\* just before the commit is the list that the Lookup which minted its token
\* returned, whatever other Updates, sweeps and cleanups did in between
NoLostUpdate ==
  [][\A t \in Clients :
       Commits(t) => HeldFor(cl[t].cid) = tokHist[cl[t].token].returned]_vars
====
